---- MODULE Spec2Model ----
(***************************************************************************)
(* The multi-variant cache and progressive delivery of backend/main.py:    *)
(* generate_cache_key, r2_key, list_zarr_chunk_keys, ensure_cached_in_r2,  *)
(* stream_variant_from_r2 and the request handler stream_zarr.             *)
(*                                                                         *)
(* A string is modelled as the sequence of its tokens, so that an f-string *)
(* is a concatenation (\o), split('/')[-1] is the tail after the last "/"  *)
(* token and a key prefix is a sequence prefix.  A request-handling        *)
(* context is a process; one action is one blocking call of the handler    *)
(* (an object-store call, an upstream fetch, a yield to the client)        *)
(* together with the local computation that follows it.                    *)
(***************************************************************************)
EXTENDS Integers, Sequences, FiniteSets, TLC

\* ------------------------------------------------------------------ bounds

\* Samples per zarr chunk.  The code uses 524288 (main.py:181); the model
\* scales it down so that a trace of a few samples spans several chunks.
ChunkLen == 2

\* Keys the object store returns per list page.  The code asks for at most
\* 1000 (MaxKeys, main.py:60); a store may return fewer and set IsTruncated.
StorePageCap == 2

\* ------------------------------------------------------- program constants

PROGRESSIVE_CHUNK_SIZES_KB == <<8, 16, 32, 64, 128, 256>>

REMAINING_CHUNK_KB == 512

BytesPerKB == 1024

MaxKeys == 1000

INT16_PEAK == 32767

\* The configured sources (VOLCANOES, the fallback table of
\* load_volcano_stations) with their default station.
VOLCANOES ==
    [kilauea |-> [network |-> "HV", station |-> "HLPD", channel |-> "HHZ"]]

\* --------------------------------------------------------------- utilities

Max(a, b) == IF a >= b THEN a ELSE b

Min(a, b) == IF a <= b THEN a ELSE b

Abs(a) == IF a >= 0 THEN a ELSE -a

\* C cast of a quotient to an integer: truncation toward zero (b > 0).
TruncDiv(a, b) == IF a >= 0 THEN a \div b ELSE -((-a) \div b)

RECURSIVE SumSeq(_)
SumSeq(s) == IF s = <<>> THEN 0 ELSE Head(s) + SumSeq(Tail(s))

RECURSIVE MaxAbsSeq(_)
MaxAbsSeq(s) == IF s = <<>> THEN 0 ELSE Max(Abs(Head(s)), MaxAbsSeq(Tail(s)))

RECURSIVE Concat(_)
Concat(ss) == IF ss = <<>> THEN <<>> ELSE Head(ss) \o Concat(Tail(ss))

IsPrefix(pre, s) ==
    /\ Len(pre) <= Len(s)
    /\ \A i \in 1..Len(pre) : s[i] = pre[i]

\* Python's s[a:b] for 0 <= a: the elements at offsets a .. b-1 that exist.
Slice(s, a, b) == SubSeq(s, a + 1, Min(b, Len(s)))

\* ------------------------------------------------------------- cache keys

\* sha256(key_string).hexdigest()[:16] of generate_cache_key, tabulated for
\* the key strings of the model's requests (the values are the real digests).
SHA256_HEX16 ==
    [kilauea |-> [h12 |-> "a3a4bd3499c23245", h24 |-> "997d9b3aef3c04fa"]]

HoursToken(hours_ago) == IF hours_ago = 12 THEN "h12" ELSE "h24"

\* generate_cache_key (duration_hours is 1 in every request of the model).
generate_cache_key(volcano, hours_ago, duration_hours) ==
    SHA256_HEX16[volcano][HoursToken(hours_ago)]

\* The characters of the tokens keys are made of: a key of the model is the
\* sequence of its tokens and the key of the bucket is the string they
\* spell.
CHARS ==
       ("cache" :> <<"c", "a", "c", "h", "e">>)
    @@ ("/" :> <<"/">>)
    @@ ("int16" :> <<"i", "n", "t", "1", "6">>)
    @@ ("gzip" :> <<"g", "z", "i", "p">>)
    @@ ("blosc" :> <<"b", "l", "o", "s", "c">>)
    @@ ("raw" :> <<"r", "a", "w">>)
    @@ ("zarr" :> <<"z", "a", "r", "r">>)
    @@ ("metadata" :> <<"m", "e", "t", "a", "d", "a", "t", "a">>)
    @@ ("mseed" :> <<"m", "s", "e", "e", "d">>)
    @@ ("a3a4bd3499c23245" :> <<"a", "3", "a", "4", "b", "d", "3", "4", "9", "9", "c", "2", "3", "2", "4", "5">>)
    @@ ("997d9b3aef3c04fa" :> <<"9", "9", "7", "d", "9", "b", "3", "a", "e", "f", "3", "c", "0", "4", "f", "a">>)
    @@ (".bin" :> <<".", "b", "i", "n">>)
    @@ (".bin.gz" :> <<".", "b", "i", "n", ".", "g", "z">>)
    @@ (".blosc" :> <<".", "b", "l", "o", "s", "c">>)
    @@ (".json" :> <<".", "j", "s", "o", "n">>)
    @@ ("_profiles.json" :> <<"_", "p", "r", "o", "f", "i", "l", "e", "s", ".", "j", "s", "o", "n">>)
    @@ (".mseed" :> <<".", "m", "s", "e", "e", "d">>)
    @@ ("data.zarr" :> <<"d", "a", "t", "a", ".", "z", "a", "r", "r">>)
    @@ (".zarray" :> <<".", "z", "a", "r", "r", "a", "y">>)
    @@ (".zattrs" :> <<".", "z", "a", "t", "t", "r", "s">>)
    @@ (".zgroup" :> <<".", "z", "g", "r", "o", "u", "p">>)
    @@ ("0" :> <<"0">>)
    @@ ("1" :> <<"1">>)
    @@ ("10" :> <<"1", "0">>)
    @@ ("2" :> <<"2">>)
    @@ ("3" :> <<"3">>)
    @@ ("abc" :> <<"a", "b", "c">>)
    @@ ("xyz" :> <<"x", "y", "z">>)

\* The string a key spells, as the sequence of its characters.
RECURSIVE KeyString(_)
KeyString(key) ==
    IF key = <<>> THEN <<>> ELSE CHARS[Head(key)] \o KeyString(Tail(key))

\* r2_key without the codec directory: f"cache/{storage}/{cache_key}{ext}".
r2_key_NoCodec(cache_key, compression, storage, ext) ==
    <<"cache", "/", storage, "/", cache_key>> \o ext

\* r2_key: f"cache/{compression}/{storage}/{cache_key}{ext}".
r2_key(cache_key, compression, storage, ext) ==
    <<"cache", "/", compression, "/", storage, "/", cache_key>> \o ext

SentinelKey(cache_key) == r2_key(cache_key, "int16", "raw", <<".bin">>)

MetadataKey(cache_key) == <<"cache", "/", "metadata", "/", cache_key, ".json">>

ProfilesKey(cache_key) ==
    <<"cache", "/", "metadata", "/", cache_key, "_profiles.json">>

MseedKey(cache_key) == <<"cache", "/", "mseed", "/", cache_key, ".mseed">>

\* The extension the raw layout gives each codec; <<>> stands for the
\* 'Unsupported compression' branch.
RawExt(compression) ==
    CASE compression = "int16" -> <<".bin">>
      [] compression = "gzip"  -> <<".bin.gz">>
      [] compression = "blosc" -> <<".blosc">>
      [] OTHER -> <<>>

\* f'/{rel}' of build_and_upload_zarr for the file fn of data.zarr.
ZarrFileExt(fn) == <<"/", "data.zarr", "/", fn>>

ZarrPrefix(cache_key, compression) ==
    r2_key(cache_key, compression, "zarr", <<"/", "data.zarr", "/">>)

RESERVED_NAMES == {".zarray", ".zattrs", ".zgroup"}

\* key.split('/')[-1] for a key whose last segment is one token.
BaseName(key) == key[Len(key)]

\* The object names of the model under a data.zarr/ prefix, in code point
\* order: the order of Python's str comparison and of the store's listing
\* (UTF-8 binary order; "." sorts before the digits, "10" before "2").
NAME_ORDER ==
    <<".zarray", ".zattrs", ".zgroup", "0", "1", "10", "2", "3", "abc", "xyz">>

NameRank(name) == CHOOSE i \in 1..Len(NAME_ORDER) : NAME_ORDER[i] = name

\* int(tail) for the names on which it returns; on the others it raises.
INT_OF == ("0" :> 0) @@ ("1" :> 1) @@ ("2" :> 2) @@ ("3" :> 3) @@ ("10" :> 10)

ParsesAsInt(tail) == tail \in DOMAIN INT_OF

ParseInt(tail) == INT_OF[tail]

\* The name zarr gives chunk i of a one-dimensional array: str(i).
ChunkName(i) == CHOOSE n \in DOMAIN INT_OF : INT_OF[n] = i

\* sort_key of list_zarr_chunk_keys: int(tail), or tail where int() raises.
sort_key(k) ==
    IF ParsesAsInt(k) THEN [type |-> "int", val |-> ParseInt(k)]
    ELSE [type |-> "str", val |-> NameRank(k)]

\* a < b between two sort keys of one type (int order, str order).
KeyLess(a, b) == a.val < b.val

\* list.sort compares keys with <; between an int and a str that raises
\* TypeError, and a sort of two or more keys of both types makes such a
\* comparison.
SortRaises(keys) ==
    \E i, j \in 1..Len(keys) : sort_key(keys[i]).type # sort_key(keys[j]).type

\* keys.sort(key=sort_key): stable, ascending (for keys of one type).
RECURSIVE InsertSorted(_, _)
InsertSorted(sorted, k) ==
    IF sorted = <<>> THEN <<k>>
    ELSE IF KeyLess(sort_key(k), sort_key(Head(sorted)))
         THEN <<k>> \o sorted
         ELSE <<Head(sorted)>> \o InsertSorted(Tail(sorted), k)

RECURSIVE SortKeys(_)
SortKeys(keys) ==
    IF keys = <<>> THEN <<>>
    ELSE InsertSorted(SortKeys(SubSeq(keys, 1, Len(keys) - 1)), keys[Len(keys)])

\* --------------------------------------------------------------- encoding

RECURSIVE MaxSeq(_)
MaxSeq(s) == IF Len(s) = 1 THEN s[1] ELSE Max(Head(s), MaxSeq(Tail(s)))

\* Normalize that divides by the largest sample instead of the largest
\* magnitude (np.max(data) for np.max(np.abs(data))).
Normalize_SignedPeak(data) ==
    LET n       == Len(data)
        sum     == SumSeq(data)
        centred == [i \in 1..n |-> n * data[i] - sum]
        max_abs == MaxSeq(centred)
    IN [i \in 1..n |->
          IF max_abs > 0
          THEN TruncDiv(centred[i] * INT16_PEAK, max_abs)
          ELSE TruncDiv(centred[i] * INT16_PEAK, n)]

\* Lines 152-157: mean-subtract, divide by the absolute peak when it is
\* positive, scale by 32767 and cast to int16.  The mean is sum/n, so the
\* centred samples are kept multiplied by n; the factor cancels in the
\* division by the peak.
Normalize(data) ==
    LET n       == Len(data)
        sum     == SumSeq(data)
        centred == [i \in 1..n |-> n * data[i] - sum]
        max_abs == MaxAbsSeq(centred)
    IN [i \in 1..n |->
          IF max_abs > 0
          THEN TruncDiv(centred[i] * INT16_PEAK, max_abs)
          ELSE TruncDiv(centred[i] * INT16_PEAK, n)]

\* ndarray.tobytes() of an int16 array: two's complement, little-endian.
RECURSIVE ToBytes(_)
ToBytes(arr) ==
    IF arr = <<>> THEN <<>>
    ELSE LET u == Head(arr) % 65536
         IN <<u % 256, u \div 256>> \o ToBytes(Tail(arr))

RECURSIVE FromBytes(_)
FromBytes(bytes) ==
    IF Len(bytes) < 2 THEN <<>>
    ELSE LET u == bytes[1] + 256 * bytes[2]
         IN <<IF u >= 32768 THEN u - 65536 ELSE u>> \o FromBytes(SubSeq(bytes, 3, Len(bytes)))

\* gzip.compress(raw_bytes, compresslevel=1): the container is modelled
\* (magic 1f 8b, payload, ISIZE trailer); the entropy coding is not.
GzipCompress(bytes) == <<31, 139>> \o bytes \o <<Len(bytes) % 256>>

GzipDecompress(blob) == SubSeq(blob, 3, Len(blob) - 1)

\* Zlib(level=1).encode: the zlib container (header 78 01, payload, check).
ZlibEncode(bytes) == <<120, 1>> \o bytes \o <<SumSeq(bytes) % 251>>

ZlibDecode(blob) == SubSeq(blob, 3, Len(blob) - 1)

\* Blosc byte shuffle for typesize 2: all low bytes, then all high bytes.
Shuffle(bytes) ==
    LET n == Len(bytes) \div 2
    IN [i \in 1..(2 * n) |-> IF i <= n THEN bytes[2 * i - 1] ELSE bytes[2 * (i - n)]]

Unshuffle(bytes) ==
    LET n == Len(bytes) \div 2
    IN [i \in 1..(2 * n) |-> IF i % 2 = 1 THEN bytes[(i + 1) \div 2] ELSE bytes[n + i \div 2]]

\* Blosc(cname='zstd', clevel=5, shuffle=SHUFFLE).encode: a header (flags,
\* typesize) and the shuffled bytes; the zstd coding is not modelled.
BloscEncode(bytes) == <<1, 2>> \o Shuffle(bytes)

BloscDecode(blob) == Unshuffle(SubSeq(blob, 3, Len(blob)))

\* The compressor build_and_upload_zarr is called with for each label.
ChunkEncode(comp_label, bytes) ==
    CASE comp_label = "int16" -> bytes
      [] comp_label = "gzip"  -> ZlibEncode(bytes)
      [] comp_label = "blosc" -> BloscEncode(bytes)

ChunkDecode(comp_label, blob) ==
    CASE comp_label = "int16" -> blob
      [] comp_label = "gzip"  -> ZlibDecode(blob)
      [] comp_label = "blosc" -> BloscDecode(blob)

\* An object body: bytes, or a JSON document.
Bytes(b) == [kind |-> "bytes", bytes |-> b]

\* A body of n bytes whose content is not spelled out: reading it, taking
\* its length and slicing it by offsets depend on n only.
Blob(n) == [kind |-> "blob", size |-> n]

Json(d) == [kind |-> "json", doc |-> d]

\* len() of a serialized JSON document: not computed from its text, only
\* positive.
JsonLen(d) == 1 + Cardinality(DOMAIN d)

BodySize(body) ==
    CASE body.kind = "bytes" -> Len(body.bytes)
      [] body.kind = "blob"  -> body.size
      [] OTHER               -> JsonLen(body.doc)

\* chunk_len = min(524288, arr.size)
ZarrChunkLen(arr) == Min(ChunkLen, Len(arr))

NumChunks(n, chunk_len) == (n + chunk_len - 1) \div chunk_len

\* Chunk i of the array, padded to the chunk length with the fill value 0
\* (zarr writes whole chunks).
ZarrChunk(arr, i) ==
    LET c == ZarrChunkLen(arr)
    IN [j \in 1..c |-> IF i * c + j <= Len(arr) THEN arr[i * c + j] ELSE 0]

\* The files zarr.open(..., mode='w') and z[:] = arr leave in data.zarr:
\* the descriptor .zarray and one file per chunk.
ZarrFiles(arr, comp_label) ==
    [fn \in {".zarray"} \cup {ChunkName(i) : i \in 0..(NumChunks(Len(arr), ZarrChunkLen(arr)) - 1)} |->
        IF fn = ".zarray"
        THEN Json([shape |-> Len(arr), chunks |-> ZarrChunkLen(arr), compressor |-> comp_label])
        ELSE Bytes(ChunkEncode(comp_label, ToBytes(ZarrChunk(arr, ParseInt(fn)))))]

\* ------------------------------------------------------------------ state

\* The request-handling contexts.
Procs == {1, 2}

\* What the upstream returns for a window depends on the moment of the
\* call (end_time = UTCDateTime() - hours_ago * 3600), so two calls for one
\* request may get different traces.  The second trace is constant: its
\* mean-subtracted samples are all 0.
Traces ==
    { [data |-> <<-3, 5>>, sampling_rate |-> 100],
      [data |-> <<2, 2>>, sampling_rate |-> 100] }

\* An upstream that returns the same trace to every call.
OneTrace == { [data |-> <<-3, 5>>, sampling_rate |-> 100] }

NoStream == [data |-> <<>>, sampling_rate |-> 0, station |-> "", hours_ago |-> 0]

\* What get_waveforms returns for a station and a window ending hours_ago
\* hours before the call: the samples with, in the trace's stats, the
\* station and the window they are of.
Fetched(tr, station, hours_ago) ==
    [data |-> tr.data, sampling_rate |-> tr.sampling_rate,
     station |-> station, hours_ago |-> hours_ago]

\* The window of the second fetch (line 126).
FALLBACK_HOURS_AGO == 24

\* The query arguments of a request: storage and compression as the client
\* sends them ("zip" and "zstd" stand for any unsupported value).
StorageArgs == {"raw", "zarr", "zip"}

\* request.args.get(name, default): "" is the absent parameter.
ArgOr(value, default) == IF value = "" THEN default ELSE value

\* The station override of the query string; "" is the absent parameter.
StationArgs == {"", "MLOD"}

CompressionArgs == {"int16", "gzip", "blosc", "none", "zstd"}

VolcanoArgs == {"kilauea", "atlantis"}

AllArgs ==
    [volcano : VolcanoArgs, storage : StorageArgs, compression : CompressionArgs,
     station : {""}]

\* request.args.get('storage', 'raw'), request.args.get('compression', 'gzip')
DefaultArgs ==
    {[volcano |-> "kilauea", storage |-> "", compression |-> "", station |-> ""]}

\* The default variant asked with a station override.
OverrideArgs ==
    [volcano : {"kilauea"}, storage : {""}, compression : {""},
     station : StationArgs \ {""}]

DEFAULT_HOURS_AGO == 12

\* An empty dict.
EmptyDict == [k \in {} |-> 0]

\* No blob read yet.
NoData == Bytes(<<>>)

VARIABLES
    store,      \* the bucket: object key |-> body, for the objects present
    pc,         \* where each context is in stream_zarr
    loc,        \* the locals of each context's request
    populated   \* cache keys for which a miss-path call has returned

vars == <<store, pc, loc, populated>>

InitLoc ==
    [volcano |-> "", storage |-> "", compression |-> "", hours_ago |-> 0,
     station |-> "", asked |-> [storage |-> "", compression |-> ""],
     cache_key |-> "", stream |-> NoStream, data_int16 |-> <<>>,
     profiles |-> EmptyDict, metadata |-> EmptyDict,
     pending |-> {}, size_b |-> 0,
     total_size |-> 0, cont |-> "", keys |-> <<>>, sized |-> <<>>,
     data |-> NoData, blob |-> <<>>, offset |-> 0, kb |-> 1, suspended |-> FALSE,
     status |-> 0, content_length |-> 0, x_compressed_bytes |-> 0,
     emitted |-> 0, outcome |-> "",
     fetched |-> <<>>, ranges |-> <<>>,
     path |-> "", fetches |-> 0, did_io |-> FALSE, last_put |-> <<>>,
     store_err |-> "", after_populated |-> FALSE]

Init ==
    /\ store = EmptyDict
    /\ pc = [p \in Procs |-> "idle"]
    /\ loc = [p \in Procs |-> InitLoc]
    /\ populated = {}

\* ------------------------------------------------------------ object store

Present(key) == key \in DOMAIN store

\* A put that replaces the bucket's content by the object it writes.
Put_DropOthers(key, body) == [k \in {key} |-> body]

\* put_object: the object is created or fully re-written.
Put(key, body) == [k \in DOMAIN store \cup {key} |-> IF k = key THEN body ELSE store[k]]

\* One page of list_objects_v2: the keys under the prefix after the
\* continuation token, in the store's order, at most min(MaxKeys, page cap).
PageLimit == Min(MaxKeys, StorePageCap)

ListedNames(prefix, after) ==
    { BaseName(k) : k \in { k2 \in DOMAIN store :
          /\ IsPrefix(prefix, k2)
          /\ Len(k2) = Len(prefix) + 1
          /\ (after = "" \/ NameRank(k2[Len(k2)]) > NameRank(after)) } }

RECURSIVE SortNames(_)
SortNames(names) ==
    IF names = {} THEN <<>>
    ELSE LET first == CHOOSE n \in names : \A m \in names : NameRank(n) <= NameRank(m)
         IN <<first>> \o SortNames(names \ {first})

ListPage(prefix, after) ==
    LET all == SortNames(ListedNames(prefix, after))
    IN [Contents    |-> SubSeq(all, 1, Min(PageLimit, Len(all))),
        IsTruncated |-> Len(all) > PageLimit]

\* --------------------------------------------------------------- stream_zarr

Update(p, l, next) ==
    /\ loc' = [loc EXCEPT ![p] = l]
    /\ pc' = [pc EXCEPT ![p] = next]

\* The request is over: what is kept of its locals is the request, the
\* response and the record of what the call did.
End(p, l, status, outcome) ==
    Update(p, [InitLoc EXCEPT
                 !.volcano = l.volcano, !.storage = l.storage,
                 !.compression = l.compression, !.hours_ago = l.hours_ago,
                 !.station = l.station, !.asked = l.asked,
                 !.cache_key = l.cache_key,
                 !.fetched = l.fetched, !.ranges = l.ranges,
                 !.store_err = l.store_err,
                 !.status = status, !.outcome = outcome,
                 !.content_length = l.content_length,
                 !.x_compressed_bytes = l.x_compressed_bytes,
                 !.emitted = l.emitted,
                 !.path = l.path, !.fetches = l.fetches, !.did_io = l.did_io,
                 !.last_put = IF l.path = "populated" THEN l.last_put ELSE <<>>,
                 !.after_populated = l.after_populated],
           "done")

\* The object-store call made at each place of the handler.
CallKind(at) ==
    CASE at = "probe" -> "head_sentinel"
      [] at \in {"load_profiles", "load_metadata"} -> "get_side_object"
      [] at = "save_mseed" -> "put_mseed"
      [] at \in {"put_int16_raw", "zarr_int16", "put_gzip_raw", "zarr_gzip",
                 "put_blosc_raw", "zarr_blosc"} -> "put_variant"
      [] at \in {"put_metadata", "put_profiles"} -> "put_side_object"
      [] at = "head_variant" -> "head_variant"
      [] at \in {"size_list", "stream_list"} -> "list"
      [] OTHER -> "get_variant"

\* The locals after an object-store call made at `at`: ok is FALSE when the
\* call raised for another reason than the absence of the object;
\* store_err tells whether the latest call of the request did, and which
\* call it was.
Called(l, ok, at) ==
    [l EXCEPT !.did_io = TRUE,
              !.store_err = IF ok THEN "" ELSE CallKind(at)]

\* An exception reaches the handler's except clause (lines 828-829): the
\* response is 500 with {error: message}.
Raise(p, l) == End(p, l, 500, "error")

\* The pair is one of the 6 variants.
Supported(compression, storage) ==
    /\ storage \in {"raw", "zarr"}
    /\ compression \in {"int16", "gzip", "blosc"}

\* StartRequest without the source check of lines 744-745: the probe is made
\* and the lookup VOLCANOES[volcano] of line 104 raises.
StartRequest_NoSourceCheck(p, args) ==
    /\ pc[p] = "idle"
    /\ LET l == [InitLoc EXCEPT
                   !.volcano = args.volcano,
                   !.asked = [storage |-> args.storage, compression |-> args.compression],
                   !.storage = ArgOr(args.storage, "raw"),
                   !.compression = IF ArgOr(args.compression, "gzip") = "none"
                                   THEN "int16"
                                   ELSE ArgOr(args.compression, "gzip"),
                   !.hours_ago = DEFAULT_HOURS_AGO]
       IN IF args.volcano \notin DOMAIN VOLCANOES
          THEN End(p, [l EXCEPT !.did_io = TRUE], 500, "error")
          ELSE LET ck == generate_cache_key(args.volcano, DEFAULT_HOURS_AGO, 1)
               IN Update(p, [l EXCEPT !.cache_key = ck,
                                      !.station = IF args.station # "" THEN args.station
                                                  ELSE VOLCANOES[args.volcano].station,
                                      !.after_populated = ck \in populated],
                         "probe")
    /\ UNCHANGED <<store, populated>>

\* StartRequest without lines 749-750: the codec 'none' is passed on as it
\* was sent.
StartRequest_NoAlias(p, args) ==
    /\ pc[p] = "idle"
    /\ LET l == [InitLoc EXCEPT
                   !.volcano = args.volcano,
                   !.asked = [storage |-> args.storage, compression |-> args.compression],
                   !.storage = ArgOr(args.storage, "raw"),
                   !.compression = ArgOr(args.compression, "gzip"),
                   !.hours_ago = DEFAULT_HOURS_AGO]
       IN IF args.volcano \notin DOMAIN VOLCANOES
          THEN End(p, l, 404, "error")
          ELSE LET ck == generate_cache_key(args.volcano, DEFAULT_HOURS_AGO, 1)
               IN Update(p, [l EXCEPT !.cache_key = ck,
                                      !.station = IF args.station # "" THEN args.station
                                                  ELSE VOLCANOES[args.volcano].station,
                                      !.after_populated = ck \in populated],
                         "probe")
    /\ UNCHANGED <<store, populated>>

\* Lines 743-757 and 86: the source check, the arguments with the alias
\* none -> int16, and the cache key.
StartRequest(p, args) ==
    /\ pc[p] = "idle"
    /\ LET l == [InitLoc EXCEPT
                   !.volcano = args.volcano,
                   !.asked = [storage |-> args.storage, compression |-> args.compression],
                   !.storage = ArgOr(args.storage, "raw"),
                   !.compression = IF ArgOr(args.compression, "gzip") = "none"
                                   THEN "int16"
                                   ELSE ArgOr(args.compression, "gzip"),
                   !.hours_ago = DEFAULT_HOURS_AGO]
       IN IF args.volcano \notin DOMAIN VOLCANOES
          THEN End(p, l, 404, "error")
          ELSE LET ck == generate_cache_key(args.volcano, DEFAULT_HOURS_AGO, 1)
               IN Update(p, [l EXCEPT !.cache_key = ck,
                                      !.station = IF args.station # "" THEN args.station
                                                  ELSE VOLCANOES[args.volcano].station,
                                      !.after_populated = ck \in populated],
                         "probe")
    /\ UNCHANGED <<store, populated>>

\* Lines 88-89 and 101-102: the existence check of the sentinel.  Any
\* exception of head_object (the object is absent, or the call failed)
\* takes the miss path.
ProbeSentinel(p, oks) ==
    /\ pc[p] = "probe"
    /\ \E ok \in oks :
         LET l == Called(loc[p], ok, pc[p])
         IN IF ok /\ Present(SentinelKey(l.cache_key))
            THEN Update(p, [l EXCEPT !.path = "hit"], "load_profiles")
            ELSE Update(p, [l EXCEPT !.path = "miss"], "fetch")
    /\ UNCHANGED <<store, populated>>

\* LoadProfiles that repairs the entry: when the profiles side-object is
\* absent it writes an empty one back.
LoadProfiles_Repair(p, oks) ==
    /\ pc[p] = "load_profiles"
    /\ \E ok \in oks :
         LET l == Called(loc[p], ok, pc[p])
             key == ProfilesKey(l.cache_key)
         IN IF ok /\ Present(key)
            THEN /\ Update(p, [l EXCEPT !.profiles = store[key].doc], "load_metadata")
                 /\ UNCHANGED store
            ELSE /\ Update(p, [l EXCEPT !.profiles = EmptyDict], "load_metadata")
                 /\ store' = Put(key, Json(EmptyDict))
    /\ UNCHANGED populated

\* LoadProfiles without the handler of lines 93-94: the exception of the
\* get reaches the handler of stream_zarr.
LoadProfiles_Raise(p, oks) ==
    /\ pc[p] = "load_profiles"
    /\ \E ok \in oks :
         LET l == Called(loc[p], ok, pc[p])
             key == ProfilesKey(l.cache_key)
         IN IF ok /\ Present(key)
            THEN Update(p, [l EXCEPT !.profiles = store[key].doc], "load_metadata")
            ELSE Raise(p, l)
    /\ UNCHANGED <<store, populated>>

\* Lines 90-94: the profiles side-object, {} when the get raises.
LoadProfiles(p, oks) ==
    /\ pc[p] = "load_profiles"
    /\ \E ok \in oks :
         LET l == Called(loc[p], ok, pc[p])
             key == ProfilesKey(l.cache_key)
         IN IF ok /\ Present(key)
            THEN Update(p, [l EXCEPT !.profiles = store[key].doc], "load_metadata")
            ELSE Update(p, [l EXCEPT !.profiles = EmptyDict], "load_metadata")
    /\ UNCHANGED <<store, populated>>

\* Lines 762-770 and 794-795, the checks stream_zarr makes once
\* ensure_cached_in_r2 has returned and before its next store call.
AfterEnsureCached(p, l) ==
    IF l.storage = "raw"
    THEN IF RawExt(l.compression) = <<>>
         THEN End(p, l, 400, "error")
         ELSE Update(p, l, "head_variant")
    ELSE IF l.storage = "zarr"
         THEN Update(p, [l EXCEPT !.cont = "", !.total_size = 0], "size_list")
         ELSE End(p, l, 400, "error")

\* Lines 95-100: the metadata side-object, {} when the get raises; the call
\* returns (cache_key, profiles, metadata).
LoadMetadata(p, oks) ==
    /\ pc[p] = "load_metadata"
    /\ \E ok \in oks :
         LET l == Called(loc[p], ok, pc[p])
             key == MetadataKey(l.cache_key)
         IN IF ok /\ Present(key)
            THEN AfterEnsureCached(p, [l EXCEPT !.metadata = store[key].doc])
            ELSE AfterEnsureCached(p, [l EXCEPT !.metadata = EmptyDict])
    /\ UNCHANGED <<store, populated>>

\* Lines 104-125: the upstream fetch of the requested window.
FetchWaveforms(p, traces) ==
    /\ pc[p] = "fetch"
    /\ LET l == [loc[p] EXCEPT !.fetches = @ + 1]
       IN \/ \E tr \in traces :
               Update(p, [l EXCEPT !.stream = Fetched(tr, l.station, l.hours_ago)],
                      "save_mseed")
          \/ Update(p, l, "fetch_fallback")
    /\ UNCHANGED <<store, populated>>

\* FetchFallback that records the failure in the store: when the second
\* fetch raises, an empty sentinel is put before the exception propagates.
FetchFallback_Marker(p, traces) ==
    /\ pc[p] = "fetch_fallback"
    /\ LET l == [loc[p] EXCEPT !.fetches = @ + 1]
       IN \/ /\ \E tr \in traces :
                  Update(p, [l EXCEPT !.stream =
                                 Fetched(tr, VOLCANOES[l.volcano].station,
                                         FALLBACK_HOURS_AGO)],
                         "save_mseed")
             /\ UNCHANGED store
          \/ /\ Raise(p, l)
             /\ store' = Put(SentinelKey(l.cache_key), Bytes(<<>>))
    /\ UNCHANGED populated

\* Lines 125-135: on any exception of the first fetch, a second fetch of the
\* window ending 24 hours ago with the configured station; its exception
\* propagates.
FetchFallback(p, traces) ==
    /\ pc[p] = "fetch_fallback"
    /\ LET l == [loc[p] EXCEPT !.fetches = @ + 1]
       IN \/ \E tr \in traces :
               Update(p, [l EXCEPT !.stream =
                              Fetched(tr, VOLCANOES[l.volcano].station, FALLBACK_HOURS_AGO)],
                      "save_mseed")
          \/ Raise(p, l)
    /\ UNCHANGED <<store, populated>>

\* f"{compression}/{storage}", the key of a variant in profiles['variants'].
VariantKey(compression, storage) == <<compression, "/", storage>>

ProfileEntry(original, compressed) ==
    [original_size_bytes |-> original, compressed_size_bytes |-> compressed]

\* profiles['variants'][key] = entry.  The durations the code measures with
\* time.time() (iris_fetch_ms, preprocess_ms, compress_ms) are not modelled.
WithVariant(profiles, key, entry) ==
    [variants |-> [k \in DOMAIN profiles.variants \cup {key} |->
                     IF k = key THEN entry ELSE profiles.variants[k]]]

\* stream.write(mseed_buf, format='MSEED'): the archival copy of the input.
MseedBody(stream) == [kind |-> "mseed", trace |-> stream]

\* SaveMseed without the handler of lines 148-149: the exception of the
\* archival put reaches the handler of stream_zarr.
SaveMseed_Fatal(p, oks) ==
    /\ pc[p] = "save_mseed"
    /\ LET l0 == loc[p]
           l  == [l0 EXCEPT !.data_int16 = Normalize(l0.stream.data),
                            !.profiles = [variants |-> EmptyDict]]
           key == MseedKey(l0.cache_key)
       IN \/ /\ TRUE \in oks
             /\ store' = Put(key, MseedBody(l0.stream))
             /\ Update(p, [Called(l, TRUE, pc[p]) EXCEPT !.last_put = key], "put_int16_raw")
          \/ /\ FALSE \in oks
             /\ UNCHANGED store
             /\ Raise(p, Called(l0, FALSE, pc[p]))
    /\ UNCHANGED populated

\* Lines 138-166: the best-effort archival put, whose exception is
\* swallowed, then the normalisation to int16 and the empty profiles.
SaveMseed(p, oks) ==
    /\ pc[p] = "save_mseed"
    /\ LET l0 == loc[p]
           l  == [l0 EXCEPT !.data_int16 = Normalize(l0.stream.data),
                            !.profiles = [variants |-> EmptyDict]]
           key == MseedKey(l0.cache_key)
       IN \/ /\ TRUE \in oks
             /\ store' = Put(key, MseedBody(l0.stream))
             /\ Update(p, [Called(l, TRUE, pc[p]) EXCEPT !.last_put = key], "put_int16_raw")
          \/ /\ FALSE \in oks
             /\ UNCHANGED store
             /\ Update(p, Called(l, FALSE, pc[p]), "put_int16_raw")
    /\ UNCHANGED populated

\* PutOrRaise with the exception of put_object swallowed, as the one of the
\* archival put is: the call goes on to its next put.
PutOrRaise_Swallow(p, oks, l, key, body, lnext, next) ==
    \/ /\ TRUE \in oks
       /\ store' = Put(key, body)
       /\ Update(p, [Called(lnext, TRUE, pc[p]) EXCEPT !.last_put = key], next)
    \/ /\ FALSE \in oks
       /\ UNCHANGED store
       /\ Update(p, Called(lnext, FALSE, pc[p]), next)

\* A put_object of the populate call that raises ends the request with 500.
PutOrRaise(p, oks, l, key, body, lnext, next) ==
    \/ /\ TRUE \in oks
       /\ store' = Put(key, body)
       /\ Update(p, [Called(lnext, TRUE, pc[p]) EXCEPT !.last_put = key], next)
    \/ /\ FALSE \in oks
       /\ UNCHANGED store
       /\ Raise(p, Called(l, FALSE, pc[p]))

\* Lines 168-184: 1) int16/raw, the sentinel; then zarr builds the int16
\* array in the temporary directory.
PutInt16Raw(p, oks) ==
    /\ pc[p] = "put_int16_raw"
    /\ LET l == loc[p]
           raw_bytes == ToBytes(l.data_int16)
       IN PutOrRaise(p, oks, l, SentinelKey(l.cache_key), Bytes(raw_bytes),
            [l EXCEPT !.profiles = WithVariant(l.profiles, VariantKey("int16", "raw"),
                                     ProfileEntry(Len(raw_bytes), Len(raw_bytes))),
                      !.pending = DOMAIN ZarrFiles(l.data_int16, "int16"),
                      !.size_b = 0],
            "zarr_int16")
    /\ UNCHANGED populated

ZarrLabel(at) ==
    CASE at = "zarr_int16" -> "int16"
      [] at = "zarr_gzip"  -> "gzip"
      [] at = "zarr_blosc" -> "blosc"

\* AfterZarr that leaves out steps 5 and 6: after the gzip chunked variant
\* the call goes to the side-objects.
AfterZarr_SkipBlosc(at) ==
    CASE at = "zarr_int16" -> "put_gzip_raw"
      [] at = "zarr_gzip"  -> "put_metadata"
      [] at = "zarr_blosc" -> "put_metadata"

AfterZarr(at) ==
    CASE at = "zarr_int16" -> "put_gzip_raw"
      [] at = "zarr_gzip"  -> "put_blosc_raw"
      [] at = "zarr_blosc" -> "put_metadata"

\* Lines 185-202 (and 215-220, 234-239): build_and_upload_zarr puts the
\* files of data.zarr in the order os.walk yields them, which the file
\* system decides; after the last one the variant's profile is recorded.
UploadZarrFile(p, oks) ==
    /\ pc[p] \in {"zarr_int16", "zarr_gzip", "zarr_blosc"}
    /\ LET l == loc[p]
           comp_label == ZarrLabel(pc[p])
           files == ZarrFiles(l.data_int16, comp_label)
       IN \E fn \in l.pending :
            LET total == l.size_b + BodySize(files[fn])
                left  == l.pending \ {fn}
                key   == r2_key(l.cache_key, comp_label, "zarr", ZarrFileExt(fn))
            IN IF left # {}
               THEN PutOrRaise(p, oks, l, key, files[fn],
                      [l EXCEPT !.pending = left, !.size_b = total], pc[p])
               ELSE PutOrRaise(p, oks, l, key, files[fn],
                      [l EXCEPT !.pending = {}, !.size_b = 0,
                                !.profiles = WithVariant(l.profiles,
                                    VariantKey(comp_label, "zarr"),
                                    ProfileEntry(Len(ToBytes(l.data_int16)), total))],
                      AfterZarr(pc[p]))
    /\ UNCHANGED populated

\* Lines 204-212: 3) gzip/raw.
PutGzipRaw(p, oks) ==
    /\ pc[p] = "put_gzip_raw"
    /\ LET l == loc[p]
           raw_bytes == ToBytes(l.data_int16)
           gzip_bytes == GzipCompress(raw_bytes)
       IN PutOrRaise(p, oks, l, r2_key(l.cache_key, "gzip", "raw", <<".bin.gz">>),
            Bytes(gzip_bytes),
            [l EXCEPT !.profiles = WithVariant(l.profiles, VariantKey("gzip", "raw"),
                                     ProfileEntry(Len(raw_bytes), Len(gzip_bytes))),
                      !.pending = DOMAIN ZarrFiles(l.data_int16, "gzip"),
                      !.size_b = 0],
            "zarr_gzip")
    /\ UNCHANGED populated

\* Lines 222-231: 5) blosc/raw.
PutBloscRaw(p, oks) ==
    /\ pc[p] = "put_blosc_raw"
    /\ LET l == loc[p]
           raw_bytes == ToBytes(l.data_int16)
           blosc_bytes == BloscEncode(raw_bytes)
       IN PutOrRaise(p, oks, l, r2_key(l.cache_key, "blosc", "raw", <<".blosc">>),
            Bytes(blosc_bytes),
            [l EXCEPT !.profiles = WithVariant(l.profiles, VariantKey("blosc", "raw"),
                                     ProfileEntry(Len(raw_bytes), Len(blosc_bytes))),
                      !.pending = DOMAIN ZarrFiles(l.data_int16, "blosc"),
                      !.size_b = 0],
            "zarr_blosc")
    /\ UNCHANGED populated

\* Lines 241-247.
MetadataDoc(l) ==
    [volcano |-> l.volcano, sample_rate |-> l.stream.sampling_rate,
     total_samples |-> Len(l.data_int16), duration_hours |-> 1,
     hours_ago |-> l.hours_ago]

\* Line 248.
PutMetadata(p, oks) ==
    /\ pc[p] = "put_metadata"
    /\ LET l == loc[p]
       IN PutOrRaise(p, oks, l, MetadataKey(l.cache_key), Json(MetadataDoc(l)),
            [l EXCEPT !.metadata = MetadataDoc(l)], "put_profiles")
    /\ UNCHANGED populated

\* Lines 249-251: the profiles side-object; the call returns
\* (cache_key, profiles, metadata).
PutProfiles(p, oks) ==
    /\ pc[p] = "put_profiles"
    /\ LET l == loc[p]
           key == ProfilesKey(l.cache_key)
       IN \/ /\ TRUE \in oks
             /\ store' = Put(key, Json(l.profiles))
             /\ AfterEnsureCached(p, [Called(l, TRUE, pc[p]) EXCEPT
                                        !.last_put = key, !.path = "populated"])
             /\ populated' = populated \cup {l.cache_key}
          \/ /\ FALSE \in oks
             /\ UNCHANGED <<store, populated>>
             /\ Raise(p, Called(l, FALSE, pc[p]))

\* Lines 798-805: X-Compressed-Bytes is the compressed size the profiles
\* give for the variant, and the Content-Length where they give none.
HeaderCompressedBytes(l, total_size) ==
    LET variant_key == VariantKey(l.compression, l.storage)
    IN IF /\ "variants" \in DOMAIN l.profiles
          /\ variant_key \in DOMAIN l.profiles.variants
       THEN l.profiles.variants[variant_key].compressed_size_bytes
       ELSE total_size

\* Lines 797-826: the headers, with the Content-Length, and the Response
\* around the generator: the status 200 is committed and no byte of the
\* body has been produced (the generator runs when the server iterates it).
Respond200(p, l, total_size) ==
    Update(p, [l EXCEPT !.status = 200, !.total_size = total_size,
                        !.content_length = total_size,
                        !.x_compressed_bytes = HeaderCompressedBytes(l, total_size),
                        !.cont = "", !.keys = <<>>,
                        !.stream = NoStream, !.data_int16 = <<>>,
                        !.profiles = EmptyDict, !.metadata = EmptyDict],
           IF l.storage = "raw" THEN "stream_get" ELSE "stream_list")

\* Lines 771-773: head_object of the raw variant; its exception is a 500.
HeadVariant(p, oks) ==
    /\ pc[p] = "head_variant"
    /\ \E ok \in oks :
         LET l == Called(loc[p], ok, pc[p])
             key == r2_key(l.cache_key, l.compression, l.storage, RawExt(l.compression))
         IN IF ok /\ Present(key)
            THEN Respond200(p, l, BodySize(store[key]))
            ELSE Raise(p, l)
    /\ UNCHANGED <<store, populated>>

\* NonReserved that knows the array descriptor only.
NonReserved_ArrayOnly(names) == SelectSeq(names, LAMBDA n : n # ".zarray")

\* The names of a page that are not descriptor files (lines 67-69 and
\* 782-784).
NonReserved(names) == SelectSeq(names, LAMBDA n : n \notin RESERVED_NAMES)

RECURSIVE SumSizes(_, _)
SumSizes(prefix, names) ==
    IF names = <<>> THEN 0
    ELSE (IF Head(names) \in RESERVED_NAMES THEN 0
          ELSE BodySize(store[prefix \o <<Head(names)>>]))
         + SumSizes(prefix, Tail(names))

\* Lines 774-793: one list_objects_v2 page of the size computation; the
\* sizes of the objects that are not descriptors are added up.  `sized`
\* records the names of the objects whose size was added.
SizeListPage(p, oks) ==
    /\ pc[p] = "size_list"
    /\ \E ok \in oks :
         LET l == Called(loc[p], ok, pc[p])
             prefix == ZarrPrefix(l.cache_key, l.compression)
             resp == ListPage(prefix, l.cont)
             size_sum == l.total_size + SumSizes(prefix, resp.Contents)
             sized == l.sized \o NonReserved(resp.Contents)
         IN IF ~ok THEN Raise(p, l)
            ELSE IF resp.IsTruncated
                 THEN Update(p, [l EXCEPT !.total_size = size_sum,
                                          !.sized = sized,
                                          !.cont = resp.Contents[Len(resp.Contents)]],
                             "size_list")
                 ELSE Respond200(p, [l EXCEPT !.sized = sized], size_sum)
    /\ UNCHANGED <<store, populated>>

\* --------------------------------------------------- stream_variant_from_r2

\* An exception inside the generator: the status and the headers are
\* already sent, the body ends short.
AbortStream(p, l) == End(p, l, 200, "aborted")

\* The generator is exhausted (lines 821-824).
EndStream(p, l) == End(p, l, 200, "complete")

\* Continue with the test for a next chunk object made before the test for
\* bytes left in the blob at hand.
Continue_NextChunkFirst(p, l) ==
    IF l.storage = "zarr" /\ Len(l.keys) > 1
    THEN Update(p, [l EXCEPT !.keys = Tail(l.keys), !.data = NoData,
                             !.blob = <<>>, !.offset = 0],
                "stream_get_chunk")
    ELSE IF l.offset < BodySize(l.data)
         THEN Update(p, l, "yield")
         ELSE EndStream(p, l)

\* Continue with the test of the while loop made inclusive: one more range
\* is cut at the end of the blob.
Continue_Inclusive(p, l) ==
    IF l.offset <= BodySize(l.data)
    THEN Update(p, l, "yield")
    ELSE IF l.storage = "zarr" /\ Len(l.keys) > 1
         THEN Update(p, [l EXCEPT !.keys = Tail(l.keys), !.data = NoData,
                                  !.blob = <<>>, !.offset = 0],
                     "stream_get_chunk")
         ELSE EndStream(p, l)

\* After the blob `data` has been read or a range of it yielded: the next
\* yield of the blob, the next chunk object, or the end of the stream.
Continue(p, l) ==
    IF l.offset < BodySize(l.data)
    THEN Update(p, l, "yield")
    ELSE IF l.storage = "zarr" /\ Len(l.keys) > 1
         THEN Update(p, [l EXCEPT !.keys = Tail(l.keys), !.data = NoData,
                                  !.blob = <<>>, !.offset = 0],
                     "stream_get_chunk")
         ELSE EndStream(p, l)

\* ReadBlob with the schedule position kept from the blob before.
ReadBlob_KeepSchedule(l, key) ==
    [l EXCEPT !.data = store[key], !.blob = key, !.offset = 0,
              !.suspended = FALSE,
              !.fetched = Append(@, [blob |-> key, size |-> BodySize(store[key])])]

\* obj = get_object(Key=key); data = obj['Body'].read(), and the start of
\* the schedule for the blob.
ReadBlob(l, key) ==
    [l EXCEPT !.data = store[key], !.blob = key, !.offset = 0, !.kb = 1,
              !.suspended = FALSE,
              !.fetched = Append(@, [blob |-> key, size |-> BodySize(store[key])])]

\* Lines 264-268: the get_object of the raw variant.
StreamGet(p, oks) ==
    /\ pc[p] = "stream_get"
    /\ \E ok \in oks :
         LET l == Called(loc[p], ok, pc[p])
             key == r2_key(l.cache_key, l.compression, l.storage, RawExt(l.compression))
         IN IF ok /\ Present(key)
            THEN Continue(p, ReadBlob(l, key))
            ELSE AbortStream(p, l)
    /\ UNCHANGED <<store, populated>>

\* Lines 280-281 and 53-82: one list_objects_v2 page of
\* list_zarr_chunk_keys; after the last page the keys are sorted, and a
\* TypeError of the sort is an exception inside the generator.
StreamListPage(p, oks) ==
    /\ pc[p] = "stream_list"
    /\ \E ok \in oks :
         LET l == Called(loc[p], ok, pc[p])
             prefix == ZarrPrefix(l.cache_key, l.compression)
             resp == ListPage(prefix, l.cont)
             keys == l.keys \o NonReserved(resp.Contents)
         IN IF ~ok THEN AbortStream(p, l)
            ELSE IF resp.IsTruncated
                 THEN Update(p, [l EXCEPT !.keys = keys,
                                          !.cont = resp.Contents[Len(resp.Contents)]],
                             "stream_list")
                 ELSE IF SortRaises(keys)
                      THEN AbortStream(p, l)
                      ELSE IF keys = <<>>
                           THEN EndStream(p, l)
                           ELSE Update(p, [l EXCEPT !.keys = SortKeys(keys), !.cont = "",
                                                    !.sized = <<>>],
                                       "stream_get_chunk")
    /\ UNCHANGED <<store, populated>>

\* Lines 282-286: the get_object of the next chunk object.
StreamGetChunk(p, oks) ==
    /\ pc[p] = "stream_get_chunk"
    /\ \E ok \in oks :
         LET l == Called(loc[p], ok, pc[p])
             key == ZarrPrefix(l.cache_key, l.compression) \o <<Head(l.keys)>>
         IN IF ok /\ Present(key)
            THEN Continue(p, ReadBlob(l, key))
            ELSE AbortStream(p, l)
    /\ UNCHANGED <<store, populated>>

\* RangeSize without the staircase: REMAINING_CHUNK_KB at every position.
RangeSize_Flat(kb) == REMAINING_CHUNK_KB * BytesPerKB

\* The size of the range at schedule position kb: the staircase for the
\* first 6 positions, then REMAINING_CHUNK_KB.
RangeSize(kb) ==
    IF kb <= Len(PROGRESSIVE_CHUNK_SIZES_KB)
    THEN PROGRESSIVE_CHUNK_SIZES_KB[kb] * BytesPerKB
    ELSE REMAINING_CHUNK_KB * BytesPerKB

\* SliceOf with the end of the slice one byte short of the end of the blob.
SliceOf_ShortByOne(blob, data, a, b) ==
    [blob |-> blob, from |-> a, to |-> Min(b, BodySize(data) - 1)]

\* data[a:b] for 0 <= a < len(data), as the bytes of the blob it denotes:
\* those at the offsets a .. min(b, len(data)) - 1.
SliceOf(blob, data, a, b) ==
    [blob |-> blob, from |-> a, to |-> Min(b, BodySize(data))]

\* Lines 269-278 (287-296): one yield of data[offset:offset + sz]; the
\* generator is then suspended until the server asks for the next range, and
\* what it does when resumed, up to its next blocking call, is part of the
\* step.  kb is the position in the schedule: the 6 of the for loop, then
\* the while loop.
Yield(p) ==
    /\ pc[p] = "yield"
    /\ LET l == loc[p]
           sz == RangeSize(l.kb)
           range == SliceOf(l.blob, l.data, l.offset, l.offset + sz)
       IN Continue(p, [l EXCEPT !.emitted = @ + (range.to - range.from),
                                !.ranges = Append(@, range),
                                !.suspended = TRUE,
                                !.offset = @ + sz,
                                !.kb = @ + 1])
    /\ UNCHANGED <<store, populated>>

\* Lines 814-826: the client stops consuming.  The server, whose write of
\* the last range failed, asks for no further range and closes the
\* generator, which is suspended at a yield: no statement after it runs.
Cancel(p) ==
    /\ pc[p] \in {"yield", "stream_get_chunk"}
    /\ loc[p].suspended
    /\ End(p, loc[p], 200, "cancelled")
    /\ UNCHANGED <<store, populated>>

\* ------------------------------------------------------------ specification

\* One step of the request of context p: its arguments are drawn from
\* args, the upstream's answers from traces, and each object-store call
\* succeeds or raises as oks allows (TRUE: it succeeds, FALSE: it raises).
Step(p, args, traces, oks) ==
    \/ \E a \in args : StartRequest(p, a)
    \/ ProbeSentinel(p, oks)
    \/ LoadProfiles(p, oks)
    \/ LoadMetadata(p, oks)
    \/ FetchWaveforms(p, traces)
    \/ FetchFallback(p, traces)
    \/ SaveMseed(p, oks)
    \/ PutInt16Raw(p, oks)
    \/ UploadZarrFile(p, oks)
    \/ PutGzipRaw(p, oks)
    \/ PutBloscRaw(p, oks)
    \/ PutMetadata(p, oks)
    \/ PutProfiles(p, oks)
    \/ HeadVariant(p, oks)
    \/ SizeListPage(p, oks)
    \/ StreamGet(p, oks)
    \/ StreamListPage(p, oks)
    \/ StreamGetChunk(p, oks)
    \/ Yield(p)

\* A request with any arguments and no station override beside a request
\* for the default variant with a station override; every object-store call and every
\* upstream fetch may fail.
DeliverArgs(p) == IF p = 1 THEN AllArgs ELSE OverrideArgs

Next == \E p \in Procs : Step(p, DeliverArgs(p), OneTrace, BOOLEAN)

Spec == Init /\ [][Next]_vars

\* Two concurrent requests for one source and window whose upstream
\* fetches may return different traces, over a store whose calls succeed:
\* the first asks for the default variant or for a chunked one, the second
\* for the default variant.
RaceArgs(p) ==
    IF p = 1
    THEN DefaultArgs \cup {[volcano |-> "kilauea", storage |-> "zarr",
                             compression |-> "int16", station |-> ""]}
    ELSE DefaultArgs

NextRace == \E p \in Procs : Step(p, RaceArgs(p), Traces, {TRUE})

SpecRace == Init /\ [][NextRace]_vars

\* stream_variant_from_r2 alone, over the objects a variant can consist
\* of: the generator of a request whose 200 response has been committed
\* reads a store that nothing else writes, and the client may stop
\* consuming.  The objects are given by their sizes, in bytes.

\* Sizes of a single-object variant, around the steps of the schedule.
RawSizes ==
    {0, 1, 8192, 8193, 24576, 30000, 516096, 516097, 1000000, 1040384, 1040385,
     1600000}

\* Sizes of a chunk object.
ChunkSizes == {0, 5000, 8192, 600000}

\* Names of the chunk objects under the prefix: none yet, those zarr writes
\* for 1, 2 and 3 chunks, sets with names that other writers of the
\* bucket leave, and a chunk beside the descriptor files of a zarr group.
ChunkNameSets ==
    { {}, {"0"}, {"0", "1"}, {"0", "1", "2"}, {"1", "2", "10"},
      {"1", "2", "10", "abc"}, {"abc", "xyz"}, {".zattrs", ".zgroup", "0"} }

StreamKey == generate_cache_key("kilauea", DEFAULT_HOURS_AGO, 1)

RawStores ==
    { (r2_key(StreamKey, "gzip", "raw", RawExt("gzip")) :> Blob(n)) : n \in RawSizes }

ZarrStores ==
    UNION { { [k \in { ZarrPrefix(StreamKey, "gzip") \o <<n>> : n \in names \cup {".zarray"} } |->
                IF BaseName(k) = ".zarray"
                THEN Json([shape |-> 0, chunks |-> 0, compressor |-> "gzip"])
                ELSE Blob(sizes[BaseName(k)])]
              : sizes \in [names -> ChunkSizes] }
            : names \in ChunkNameSets }

\* The sum stream_zarr computes for the Content-Length (lines 761-793).
TotalSize(st, storage) ==
    LET ks == IF storage = "raw" THEN DOMAIN st
              ELSE { k \in DOMAIN st : BaseName(k) \notin RESERVED_NAMES }
        sz == [k \in ks |-> BodySize(st[k])]
        sum[S \in SUBSET ks] ==
            IF S = {} THEN 0
            ELSE LET k == CHOOSE x \in S : TRUE IN sz[k] + sum[S \ {k}]
    IN sum[ks]

\* The locals with which the generator starts (what Respond200 leaves; the
\* stores of these deliveries hold no profiles, so X-Compressed-Bytes is
\* the Content-Length).
GeneratorStart(st, storage) ==
    [InitLoc EXCEPT !.volcano = "kilauea", !.storage = storage,
                    !.compression = "gzip", !.hours_ago = DEFAULT_HOURS_AGO,
                    !.station = VOLCANOES["kilauea"].station,
                    !.cache_key = StreamKey, !.path = "hit", !.did_io = TRUE,
                    !.status = 200,
                    !.total_size = TotalSize(st, storage),
                    !.content_length = TotalSize(st, storage),
                    !.x_compressed_bytes = TotalSize(st, storage),
                    !.sized = IF storage = "raw" THEN <<>>
                              ELSE NonReserved(SortNames(
                                     { BaseName(k) : k \in { k2 \in DOMAIN st :
                                         IsPrefix(ZarrPrefix(StreamKey, "gzip"), k2) } }))]

\* The locals with which the size computation of a chunked delivery
\* starts (what LoadMetadata leaves).
SizeStart ==
    [InitLoc EXCEPT !.volcano = "kilauea", !.storage = "zarr",
                    !.compression = "gzip", !.hours_ago = DEFAULT_HOURS_AGO,
                    !.station = VOLCANOES["kilauea"].station,
                    !.cache_key = StreamKey, !.path = "hit", !.did_io = TRUE]

\* A delivery from a store that is not written: at the first read of the
\* generator, or, for a chunked variant, at the size computation.
InitStream ==
    /\ \E start \in {"stream_get", "stream_list", "size_list"} :
         /\ store \in (IF start = "stream_get" THEN RawStores ELSE ZarrStores)
         /\ pc = [p \in Procs |-> IF p = 1 THEN start ELSE "idle"]
         /\ loc = [p \in Procs |->
                     IF p # 1 THEN InitLoc
                     ELSE IF start = "size_list" THEN SizeStart
                     ELSE GeneratorStart(store, IF start = "stream_get" THEN "raw"
                                                ELSE "zarr")]
    /\ populated = {StreamKey}

StepStream(p, oks) ==
    \/ SizeListPage(p, oks)
    \/ StreamGet(p, oks)
    \/ StreamListPage(p, oks)
    \/ StreamGetChunk(p, oks)
    \/ Yield(p)
    \/ Cancel(p)

NextStream == \E p \in Procs : StepStream(p, BOOLEAN)

SpecStream == InitStream /\ [][NextStream]_vars

\* The server iterates the generator until it is exhausted or the client
\* is gone, and each store call returns or raises: a generator that can
\* take a step takes one.
FairSpecStream == SpecStream /\ WF_vars(NextStream)

\* ----------------------------------------------------- reading the store

\* The cache keys of the configured sources for the model's window.
CacheKeys == { generate_cache_key(v, DEFAULT_HOURS_AGO, 1) : v \in DOMAIN VOLCANOES }

Codecs == {"int16", "gzip", "blosc"}

Layouts == {"raw", "zarr"}

RawKey(ck, compression) == r2_key(ck, compression, "raw", RawExt(compression))

ZarrKey(ck, compression, fn) == ZarrPrefix(ck, compression) \o <<fn>>

\* The variant is whole: its object, or its descriptor and every chunk the
\* descriptor announces.
VariantPresent(ck, compression, storage) ==
    IF storage = "raw"
    THEN Present(RawKey(ck, compression))
    ELSE /\ Present(ZarrKey(ck, compression, ".zarray"))
         /\ LET zarray == store[ZarrKey(ck, compression, ".zarray")].doc
            IN \A i \in 0..(NumChunks(zarray.shape, zarray.chunks) - 1) :
                 Present(ZarrKey(ck, compression, ChunkName(i)))

AllVariantsPresent(ck) ==
    \A c \in Codecs, st \in Layouts : VariantPresent(ck, c, st)

EntryComplete(ck) ==
    /\ AllVariantsPresent(ck)
    /\ Present(MetadataKey(ck))
    /\ Present(ProfilesKey(ck))

\* What a client decodes from a stored variant: the int16 samples.
DecodeVariant(ck, compression, storage) ==
    IF storage = "raw"
    THEN LET blob == store[RawKey(ck, compression)].bytes
         IN CASE compression = "int16" -> FromBytes(blob)
              [] compression = "gzip"  -> FromBytes(GzipDecompress(blob))
              [] compression = "blosc" -> FromBytes(BloscDecode(blob))
    ELSE LET zarray == store[ZarrKey(ck, compression, ".zarray")].doc
             n == NumChunks(zarray.shape, zarray.chunks)
             chunks == [i \in 1..n |->
                          FromBytes(ChunkDecode(compression,
                              store[ZarrKey(ck, compression, ChunkName(i - 1))].bytes))]
         IN SubSeq(Concat(chunks), 1, zarray.shape)

\* The objects one miss-path call that fetched the trace tr leaves under
\* the cache key, the archival copy aside.
ZarrStoredSize(arr, comp_label) ==
    LET files == ZarrFiles(arr, comp_label)
    IN SumSeq([i \in 1..Len(SortNames(DOMAIN files)) |->
                 BodySize(files[SortNames(DOMAIN files)[i]])])

ExpectedProfiles(arr) ==
    LET raw_bytes == ToBytes(arr)
    IN [variants |-> [k \in { VariantKey(c, st) : c \in Codecs, st \in Layouts } |->
          ProfileEntry(Len(raw_bytes),
            CASE k = VariantKey("int16", "raw")  -> Len(raw_bytes)
              [] k = VariantKey("gzip", "raw")   -> Len(GzipCompress(raw_bytes))
              [] k = VariantKey("blosc", "raw")  -> Len(BloscEncode(raw_bytes))
              [] k = VariantKey("int16", "zarr") -> ZarrStoredSize(arr, "int16")
              [] k = VariantKey("gzip", "zarr")  -> ZarrStoredSize(arr, "gzip")
              [] k = VariantKey("blosc", "zarr") -> ZarrStoredSize(arr, "blosc"))]]

ExpectedKeys(ck, arr) ==
    { RawKey(ck, c) : c \in Codecs }
      \cup { ZarrKey(ck, c, fn) : c \in Codecs, fn \in DOMAIN ZarrFiles(arr, "int16") }
      \cup { MetadataKey(ck), ProfilesKey(ck) }

ExpectedBody(ck, volcano, tr, key) ==
    LET arr == Normalize(tr.data)
        raw_bytes == ToBytes(arr)
    IN CASE key = RawKey(ck, "int16") -> Bytes(raw_bytes)
         [] key = RawKey(ck, "gzip")  -> Bytes(GzipCompress(raw_bytes))
         [] key = RawKey(ck, "blosc") -> Bytes(BloscEncode(raw_bytes))
         [] key = MetadataKey(ck) ->
              Json([volcano |-> volcano, sample_rate |-> tr.sampling_rate,
                    total_samples |-> Len(arr), duration_hours |-> 1,
                    hours_ago |-> DEFAULT_HOURS_AGO])
         [] key = ProfilesKey(ck) -> Json(ExpectedProfiles(arr))
         [] OTHER -> ZarrFiles(arr, key[3])[BaseName(key)]

\* The store holds, under the key, exactly what one call for tr writes.
EntryIsOf(ck, volcano, tr) ==
    LET arr == Normalize(tr.data)
    IN /\ DOMAIN store \ {MseedKey(ck)} = ExpectedKeys(ck, arr)
       /\ \A key \in ExpectedKeys(ck, arr) : store[key] = ExpectedBody(ck, volcano, tr, key)

\* ------------------------------------------------------------ the key scheme

\* The cache keys of two windows of one source.
SchemeCacheKeys ==
    { generate_cache_key("kilauea", h, 1) : h \in {DEFAULT_HOURS_AGO, FALLBACK_HOURS_AGO} }

\* The files of data.zarr put under a chunked variant.
SchemeZarrFiles == {".zarray", "0", "1"}

\* At most MaxObjects objects are put.
MaxObjects == 3

InitKeys ==
    /\ store = EmptyDict
    /\ pc = [p \in Procs |-> "idle"]
    /\ loc = [p \in Procs |-> InitLoc]
    /\ populated = {}

\* Lines 170, 207 and 226: the put of a single-object variant.
PutRawObject ==
    \E ck \in SchemeCacheKeys, c \in Codecs :
        /\ Cardinality(DOMAIN store) < MaxObjects
        /\ store' = Put(r2_key(ck, c, "raw", RawExt(c)), Blob(1))
        /\ UNCHANGED <<pc, loc, populated>>

\* Lines 185-193: the put of a file of a chunked variant.
PutZarrObject ==
    \E ck \in SchemeCacheKeys, c \in Codecs, fn \in SchemeZarrFiles :
        /\ Cardinality(DOMAIN store) < MaxObjects
        /\ store' = Put(r2_key(ck, c, "zarr", ZarrFileExt(fn)), Blob(1))
        /\ UNCHANGED <<pc, loc, populated>>

\* Lines 147, 248 and 249: the put of the archival copy or of a side-object.
PutSideObject ==
    \E ck \in SchemeCacheKeys :
        \E key \in {MseedKey(ck), MetadataKey(ck), ProfilesKey(ck)} :
            /\ Cardinality(DOMAIN store) < MaxObjects
            /\ store' = Put(key, Blob(1))
            /\ UNCHANGED <<pc, loc, populated>>

NextKeys == PutRawObject \/ PutZarrObject \/ PutSideObject

SpecKeys == InitKeys /\ [][NextKeys]_vars

\* ------------------------------------------------------- the normalisation

\* The traces the normalisation is applied to: every sequence of 1 to
\* MaxTraceLen samples over a few values, constant ones included.
MaxTraceLen == 3

SampleValues == {-1000, -1, 0, 2, 999}

NormInputs ==
    UNION { [1..n -> SampleValues] : n \in 1..MaxTraceLen }

\* A miss-path call that has just fetched its trace (line 139).
InitNorm ==
    /\ store = EmptyDict
    /\ populated = {}
    /\ \E data \in NormInputs :
         /\ pc = [p \in Procs |-> IF p = 1 THEN "save_mseed" ELSE "idle"]
         /\ loc = [p \in Procs |->
                     IF p # 1 THEN InitLoc
                     ELSE [InitLoc EXCEPT
                             !.volcano = "kilauea", !.storage = "raw",
                             !.compression = "gzip", !.hours_ago = DEFAULT_HOURS_AGO,
                             !.station = VOLCANOES["kilauea"].station,
                             !.cache_key = StreamKey, !.path = "miss",
                             !.did_io = TRUE, !.fetches = 1,
                             !.stream = Fetched([data |-> data, sampling_rate |-> 100],
                                                VOLCANOES["kilauea"].station,
                                                DEFAULT_HOURS_AGO)]]

\* Lines 141-175: the archival put, the normalisation, the sentinel.
NextNorm ==
    \E p \in Procs :
        \/ SaveMseed(p, BOOLEAN)
        \/ PutInt16Raw(p, BOOLEAN)

SpecNorm == InitNorm /\ [][NextNorm]_vars

\* ------------------------------------------- deliveries from a whole entry

\* The store after one miss-path call for the trace tr has returned
\* undisturbed (the archival copy aside).
PopulatedStore(ck, volcano, tr) ==
    [key \in ExpectedKeys(ck, Normalize(tr.data)) |-> ExpectedBody(ck, volcano, tr, key)]

\* The codec and layout parameters of two clients: the first leaves them
\* out or names the codec 'none', the second names the variant.
AliasArgs(p) ==
    IF p = 1
    THEN [volcano : {"kilauea"}, storage : {"", "zarr"}, compression : {"", "none"},
          station : {""}]
    ELSE [volcano : {"kilauea"}, storage : {"raw", "zarr"},
          compression : {"gzip", "int16", "blosc"}, station : {""}]

InitAlias ==
    /\ \E tr \in OneTrace :
         store = PopulatedStore(StreamKey, "kilauea", tr)
    /\ pc = [p \in Procs |-> "idle"]
    /\ loc = [p \in Procs |-> InitLoc]
    /\ populated = {StreamKey}

\* The steps of a request served from the entry, over a store whose calls
\* succeed.
StepAlias(p, args, oks) ==
    \/ \E a \in args : StartRequest(p, a)
    \/ ProbeSentinel(p, oks)
    \/ LoadProfiles(p, oks)
    \/ LoadMetadata(p, oks)
    \/ HeadVariant(p, oks)
    \/ SizeListPage(p, oks)
    \/ StreamGet(p, oks)
    \/ StreamListPage(p, oks)
    \/ StreamGetChunk(p, oks)
    \/ Yield(p)

NextAlias == \E p \in Procs : StepAlias(p, AliasArgs(p), {TRUE})

SpecAlias == InitAlias /\ [][NextAlias]_vars

\* ----------------------------------------------------------- stream_audio

\* Line 98: the duration of a request body that names none.
DEFAULT_DURATION == 3600

\* The largest duration a modelled request body names.
MaxDuration == 250

\* The JSON bodies of POST /api/stream-audio: with or without a starttime,
\* and with no duration, a number of seconds, or a value that is no number.
AudioBodies ==
    [starttime : BOOLEAN, duration_kind : {"number"}, duration : (-1)..MaxDuration]
        \cup [starttime : BOOLEAN, duration_kind : {"absent", "text"}, duration : {0}]

\* What client.get_waveforms does in one attempt: a stream with traces, a
\* stream with none, or an exception.
AudioAnswers == {"data", "empty", "raise"}

\* The locals of stream_audio.  attempts and answers record, in order, the
\* duration of each call of get_waveforms and what the call did.
AudioLoc ==
    [starttime_str |-> FALSE, duration_kind |-> "", duration |-> 0,
     attempt_duration |-> 0, st |-> "none", last_error |-> "",
     attempts |-> <<>>, answers |-> <<>>, status |-> 0]

\* The requests are independent of each other; one is followed.
AudioProcs == {1}

InitAudio ==
    /\ store = EmptyDict
    /\ populated = {}
    /\ pc = [p \in Procs |-> IF p \in AudioProcs THEN "audio_request" ELSE "idle"]
    /\ loc = [p \in Procs |-> AudioLoc]

\* Lines 143-154, 156: after the loop, no stream is a 404 with the last
\* error as details; a stream goes on to the merge.
AudioAfterLoop(p, l) ==
    IF l.st = "none"
    THEN Update(p, [l EXCEPT !.status = 404], "done")
    ELSE Update(p, l, "audio_merge")

\* Line 121: the test of the while loop, before each attempt.
AudioLoop(p, l) ==
    IF l.attempt_duration >= 60
    THEN Update(p, l, "get_waveforms")
    ELSE AudioAfterLoop(p, l)

\* Lines 91-121: the body is read; no starttime is a 400 (105-106); the
\* end time is starttime + duration (112), which raises for a duration that
\* is no number, and the handler's except answers 500 (306-310); then the
\* loop starts with attempt_duration = duration and st = None (118-120).
AudioRequest(p, body) ==
    /\ pc[p] = "audio_request"
    /\ LET duration == IF body.duration_kind = "absent"
                       THEN DEFAULT_DURATION ELSE body.duration
           l == [AudioLoc EXCEPT !.starttime_str = body.starttime,
                                 !.duration_kind = body.duration_kind,
                                 !.duration = duration]
       IN IF ~body.starttime
          THEN Update(p, [l EXCEPT !.status = 400], "done")
          ELSE IF body.duration_kind = "text"
          THEN Update(p, [l EXCEPT !.status = 500], "done")
          ELSE AudioLoop(p, [l EXCEPT !.attempt_duration = duration])
    /\ UNCHANGED <<store, populated>>

NextAttempt_Same(attempt_duration) == attempt_duration

\* Line 141: the duration of the next attempt.
NextAttempt(attempt_duration) == attempt_duration \div 2

\* Lines 122-141 and the loop test after them: one call of get_waveforms
\* for attempt_duration seconds.  A stream with traces leaves the loop
\* (131-133); an empty stream (134-136) and an exception (137-140) set
\* st = None, and the duration is halved (141).
AudioFetch(p, answer) ==
    /\ pc[p] = "get_waveforms"
    /\ LET l == [loc[p] EXCEPT !.attempts = Append(@, loc[p].attempt_duration),
                               !.answers = Append(@, answer)]
       IN IF answer = "data"
          THEN AudioAfterLoop(p, [l EXCEPT !.st = "data"])
          ELSE AudioLoop(p, [l EXCEPT
                    !.st = "none",
                    !.last_error = IF answer = "raise" THEN "error" ELSE @,
                    !.attempt_duration = NextAttempt(l.attempt_duration)])
    /\ UNCHANGED <<store, populated>>

\* Lines 156-310: merge, filter, normalise, pack and compress, none of
\* which waits for anything: the response is the blob (300-304), a 404 when
\* the merge leaves no trace (160-167), or a 500 from the handler's except.
AudioRespond(p, status) ==
    /\ pc[p] = "audio_merge"
    /\ Update(p, [loc[p] EXCEPT !.status = status], "done")
    /\ UNCHANGED <<store, populated>>

NextAudio ==
    \E p \in AudioProcs :
        \/ \E body \in AudioBodies : AudioRequest(p, body)
        \/ \E answer \in AudioAnswers : AudioFetch(p, answer)
        \/ \E status \in {200, 404, 500} : AudioRespond(p, status)

SpecAudio == InitAudio /\ [][NextAudio]_vars

\* A request is handled by one worker that runs until it returns, and
\* get_waveforms returns or raises: a step that can be taken is taken.
FairSpecAudio == SpecAudio /\ WF_vars(NextAudio)

\* ------------------------------------------------------------------ claims

\* C1: within one miss-path call of ensure_cached_in_r2 the put of the
\* sentinel cache/int16/raw/{cacheKey}.bin is the last put of the call: a
\* call that has returned on the miss path made its last put to the sentinel.
C1_SentinelPutLast ==
    \A p \in Procs :
        loc[p].path = "populated" => loc[p].last_put = SentinelKey(loc[p].cache_key)

\* C2: in every reachable state, if the sentinel of a cache key is in the
\* store then the other 5 variants and both JSON side-objects of the key
\* are in the store: no reader can see the sentinel of a partial entry.
C2_SentinelImpliesComplete ==
    \A ck \in CacheKeys : Present(SentinelKey(ck)) => EntryComplete(ck)

\* C3: a call of ensure_cached_in_r2 that starts after a miss-path call for
\* the same key has returned performs no upstream fetch.
C3_NoFetchAfterPopulate ==
    \A p \in Procs : loc[p].after_populated => loc[p].fetches = 0

\* C4: once two calls that both missed on the same key have both returned,
\* the store holds one consistent entry: the objects, with the contents, of
\* a single miss-path call.
C4_RaceConverges ==
    (\A p \in Procs : loc[p].path = "populated") =>
        \E tr \in Traces :
            EntryIsOf(loc[1].cache_key, loc[1].volcano, tr)

\* C5: in every reachable state in which all 6 variants of a cache key are
\* in the store, decoding each of them yields the same int16 samples.
C5_VariantsDecodeAlike ==
    \A ck \in CacheKeys :
        AllVariantsPresent(ck) =>
            \A c1 \in Codecs, c2 \in Codecs, s1 \in Layouts, s2 \in Layouts :
                DecodeVariant(ck, c1, s1) = DecodeVariant(ck, c2, s2)

\* C6: for every delivery that started a 200 response and whose generator
\* ran to its end, the Content-Length committed in the headers equals the
\* number of body bytes emitted.
C6_ContentLengthIsEmitted ==
    \A p \in Procs :
        loc[p].outcome = "complete" => loc[p].emitted = loc[p].content_length

\* C7: no failure of a delivery request occurs after the status 200 has
\* been committed.
C7_NoFailureAfterCommit ==
    \A p \in Procs : ~(loc[p].status = 200 /\ loc[p].outcome = "aborted")

\* C8: a request rejected as unsupported (400) has issued no object-store
\* call and no upstream fetch.
C8_RejectedBeforeIO ==
    \A p \in Procs :
        loc[p].status = 400 => (~loc[p].did_io /\ loc[p].fetches = 0)

\* C9: a finished request for a known source whose (codec, layout), after
\* the alias none -> int16, is not one of the 6 variants has status 400 and
\* no body byte.  The requests an upstream or store error ended with 500
\* are left aside: what remains is the claim's own case, the answer to an
\* unsupported pair.
C9_UnsupportedIs400 ==
    \A p \in Procs :
        ( /\ pc[p] = "done"
          /\ loc[p].volcano \in DOMAIN VOLCANOES
          /\ ~Supported(loc[p].compression, loc[p].storage)
          /\ loc[p].status # 500 )
        => (loc[p].status = 400 /\ loc[p].emitted = 0)

\* C10: a call of ensure_cached_in_r2 issues at most one upstream fetch.
C10_AtMostOneFetch ==
    \A p \in Procs : loc[p].fetches <= 1

\* C11: a failing object-store call makes the request fail with a store
\* error (500) at once: it is neither masked nor followed by further work.
\* In particular after a sentinel probe that raised for another reason than
\* the absence of the object the request is over, with no upstream fetch.
C11_StoreFailureFailsRequest ==
    \A p \in Procs :
        loc[p].store_err # "" =>
            /\ pc[p] = "done"
            /\ loc[p].status = 500
            /\ (loc[p].store_err = "head_sentinel" => loc[p].fetches = 0)

\* C12: the cache key depends on (source, hours_ago, duration) only, so two
\* requests equal in these get the same key whatever their station, and a
\* request with another station that starts after the entry was populated
\* is served the existing entry: it performs no upstream fetch.
C12_KeyIgnoresOverrides ==
    \A p \in Procs, q \in Procs :
        /\ ( /\ loc[p].cache_key # "" /\ loc[q].cache_key # ""
             /\ loc[p].volcano = loc[q].volcano
             /\ loc[p].hours_ago = loc[q].hours_ago )
           => loc[p].cache_key = loc[q].cache_key
        /\ ( /\ loc[q].path = "populated"
             /\ loc[p].after_populated
             /\ loc[p].cache_key = loc[q].cache_key
             /\ loc[p].station # loc[q].station )
           => (loc[p].fetches = 0 /\ loc[p].path \in {"", "hit"})

\* ---- the ranges of a stream

RangeLen(r) == r.to - r.from

\* The ranges emitted for one blob, in emission order.
RangesOf(l, blob) == SelectSeq(l.ranges, LAMBDA r : r.blob = blob)

RangeLens(rs) == [i \in 1..Len(rs) |-> RangeLen(rs[i])]

\* s_1 .. s_6 = 8192, 16384, ..., 262144 and s_i = 524288 for i > 6.
ScheduledSize(i) == IF i <= 6 THEN 8192 * 2^(i - 1) ELSE 524288

\* The size of the blob a range was cut from.
BlobSize(l, blob) ==
    (CHOOSE f \in { l.fetched[k] : k \in 1..Len(l.fetched) } : f.blob = blob).size

\* C13: the ranges emitted for a blob of length L have the sizes
\* min(s_i, remaining): none is empty, only the last can be shorter than
\* its scheduled size, and the blob of 1,000,000 bytes is emitted as 8192,
\* 16384, 32768, 65536, 131072, 262144 and the remainder.
C13_StaircaseSizes ==
    \A p \in Procs :
        \A k \in 1..Len(loc[p].fetched) :
            LET f  == loc[p].fetched[k]
                rs == RangesOf(loc[p], f.blob)
            IN /\ \A i \in 1..Len(rs) :
                    /\ RangeLen(rs[i]) =
                         Min(ScheduledSize(i),
                             f.size - SumSeq(SubSeq(RangeLens(rs), 1, i - 1)))
                    /\ RangeLen(rs[i]) > 0
                    /\ (i < Len(rs) => RangeLen(rs[i]) = ScheduledSize(i))
               /\ (f.size = 1000000 /\ loc[p].outcome = "complete")
                    => RangeLens(rs) =
                         <<8192, 16384, 32768, 65536, 131072, 262144, 483904>>

C13_Witness ==
    \E p \in Procs :
        /\ loc[p].outcome = "complete"
        /\ Len(loc[p].fetched) = 1
        /\ loc[p].fetched[1].size = 1000000
        /\ Len(loc[p].ranges) = 7

\* The blobs the streamer is given: the object of a single-object variant,
\* the chunk objects of a chunked one (the store of a stream is not written).
InputBlobs(l) ==
    IF l.storage = "raw"
    THEN {RawKey(l.cache_key, l.compression)}
    ELSE { k \in DOMAIN store :
             /\ IsPrefix(ZarrPrefix(l.cache_key, l.compression), k)
             /\ BaseName(k) \notin RESERVED_NAMES }

\* C14: when a stream ends, the ranges emitted are, in order, the bytes of
\* the input blobs in enumeration order: every blob was read once, the
\* ranges of a blob follow each other from its offset 0 to its length with
\* no gap and no overlap, the blobs follow each other in the order they
\* were read, and the sizes add up to the sum of the blob lengths.
C14_RangesConcatenateToBlobs ==
    \A p \in Procs :
        loc[p].outcome = "complete" =>
            LET l == loc[p]
                R == l.ranges
                F == l.fetched
                Fidx(blob) == CHOOSE k \in 1..Len(F) : F[k].blob = blob
            IN /\ { F[k].blob : k \in 1..Len(F) } = InputBlobs(l)
               /\ Cardinality(InputBlobs(l)) = Len(F)
               /\ \A k \in 1..Len(F) : F[k].size = BodySize(store[F[k].blob])
               /\ \A k \in 1..Len(F) :
                     SumSeq(RangeLens(RangesOf(l, F[k].blob))) = F[k].size
               /\ \A n \in 1..Len(R) :
                     /\ R[n].from < R[n].to
                     /\ IF n > 1 /\ R[n - 1].blob = R[n].blob
                        THEN R[n].from = R[n - 1].to
                        ELSE /\ R[n].from = 0
                             /\ n > 1 => /\ R[n - 1].to = BlobSize(l, R[n - 1].blob)
                                         /\ Fidx(R[n - 1].blob) < Fidx(R[n].blob)
               /\ l.emitted = SumSeq([k \in 1..Len(F) |-> F[k].size])
               /\ l.emitted = SumSeq(RangeLens(R))

C14_Witness ==
    \E p \in Procs :
        /\ loc[p].outcome = "complete"
        /\ Len(loc[p].fetched) = 3
        /\ Len(loc[p].ranges) > 8

\* C15: in a chunked delivery the first range of every chunk blob, whatever
\* came before it, has the size min(8192, blob length), and every range
\* lies within the one blob it was cut from.
C15_ScheduleRestartsPerBlob ==
    \A p \in Procs :
        LET l == loc[p]
            R == l.ranges
        IN \A n \in 1..Len(R) :
              /\ 0 <= R[n].from /\ R[n].to <= BlobSize(l, R[n].blob)
              /\ (n = 1 \/ R[n - 1].blob # R[n].blob) =>
                    /\ R[n].from = 0
                    /\ RangeLen(R[n]) = Min(8192, BlobSize(l, R[n].blob))

C15_Witness ==
    \E p \in Procs :
        \E n \in 2..Len(loc[p].ranges) :
            LET R == loc[p].ranges
            IN /\ loc[p].storage = "zarr"
               /\ R[n - 1].blob # R[n].blob
               /\ RangeLen(R[n - 1]) > 8192
               /\ RangeLen(R[n]) = 8192

\* The order the names of chunk objects are to be enumerated in: those that
\* parse as integers first, ascending, then the others, lexicographically.
EnumeratedBefore(a, b) ==
    \/ ParsesAsInt(a) /\ ~ParsesAsInt(b)
    \/ ParsesAsInt(a) /\ ParsesAsInt(b) /\ INT_OF[a] < INT_OF[b]
    \/ ~ParsesAsInt(a) /\ ~ParsesAsInt(b) /\ NameRank(a) < NameRank(b)

\* C16: list_zarr_chunk_keys returns a result for every set of names, mixed
\* ones included (the stream is cut short by a failing store call only),
\* and the chunk objects are read in the order: integers ascending, then
\* the other names lexicographically.
C16_ChunkOrderTotal ==
    \A p \in Procs :
        /\ loc[p].outcome = "aborted" => loc[p].store_err # ""
        /\ loc[p].storage = "zarr" =>
              \A i \in 1..Len(loc[p].fetched), j \in 1..Len(loc[p].fetched) :
                  i < j => EnumeratedBefore(BaseName(loc[p].fetched[i].blob),
                                            BaseName(loc[p].fetched[j].blob))

\* C17: the get of a chunk blob is issued only after every range of the
\* blob before it has been consumed, so when the client stops consuming
\* the stream is over with no further read and at most the last blob read
\* is not wholly consumed.
C17_NoReadAhead ==
    \A p \in Procs :
        /\ \A k \in 1..(Len(loc[p].fetched) - 1) :
              SumSeq(RangeLens(RangesOf(loc[p], loc[p].fetched[k].blob)))
                = loc[p].fetched[k].size
        /\ loc[p].outcome = "cancelled" => pc[p] = "done"

C17_Witness ==
    \E p \in Procs :
        /\ loc[p].outcome = "cancelled"
        /\ Len(loc[p].fetched) = 2
        /\ Cardinality(InputBlobs(loc[p])) = 3
        /\ SumSeq(RangeLens(RangesOf(loc[p], loc[p].fetched[2].blob)))
             < loc[p].fetched[2].size

\* C18: a request for a source that is not in the source table ends with
\* status 404 and no body byte, having issued no object-store call and no
\* upstream fetch.
C18_UnknownSourceIs404 ==
    \A p \in Procs :
        (pc[p] # "idle" /\ loc[p].volcano \notin DOMAIN VOLCANOES) =>
            /\ pc[p] = "done"
            /\ loc[p].status = 404
            /\ loc[p].emitted = 0 /\ loc[p].ranges = <<>>
            /\ ~loc[p].did_io
            /\ loc[p].fetches = 0

C18_Witness ==
    \E p \in Procs :
        /\ pc[p] = "done"
        /\ loc[p].volcano \notin DOMAIN VOLCANOES
        /\ loc[p].status = 404
        /\ DOMAIN store # {}

\* C19: a finished request for one of the 6 variants that missed the cache
\* and whose upstream fetch of the requested window gave no data (it
\* raised, so that a second fetch was counted) has status 500 and no byte
\* of the variant stream.  The requests that a failing object-store call
\* ended are left aside.
C19_NoUpstreamDataIs500 ==
    \A p \in Procs :
        ( /\ pc[p] = "done"
          /\ loc[p].path # "hit"
          /\ loc[p].fetches >= 2
          /\ loc[p].store_err = ""
          /\ Supported(loc[p].compression, loc[p].storage) )
        => (loc[p].status = 500 /\ loc[p].emitted = 0)

\* C20: when the put of a variant or of a JSON side-object raises, the
\* request is over with status 500: the call has not returned on the miss
\* path and makes no further put.  What it wrote before stays: after a
\* failed put of a side-object the 6 variants are in the store.
C20_FailedPutIsFatal ==
    \A p \in Procs :
        loc[p].store_err \in {"put_variant", "put_side_object"} =>
            /\ pc[p] = "done"
            /\ loc[p].status = 500
            /\ loc[p].path = "miss"
            /\ loc[p].emitted = 0
            /\ loc[p].store_err = "put_side_object" =>
                  AllVariantsPresent(loc[p].cache_key)

C20_Witness ==
    \E p \in Procs :
        /\ loc[p].store_err = "put_side_object"
        /\ pc[p] = "done"
        /\ AllVariantsPresent(loc[p].cache_key)
        /\ ~Present(ProfilesKey(loc[p].cache_key))

\* C21: on the hit path (the probe found the sentinel) ensure_cached_in_r2
\* makes no upstream fetch, encodes nothing and puts nothing: each of its
\* three steps (the probe, the two gets of the side-objects) leaves the
\* store as it was.
C21_HitPathLeavesStore ==
    /\ [](\A p \in Procs :
            loc[p].path = "hit" =>
                /\ loc[p].fetches = 0
                /\ loc[p].last_put = <<>>
                /\ loc[p].stream = NoStream
                /\ loc[p].data_int16 = <<>>)
    /\ [][\A p \in Procs :
            ( /\ pc[p] \in {"probe", "load_profiles", "load_metadata"}
              /\ loc'[p] # loc[p]
              /\ loc'[p].path = "hit" )
            => store' = store]_vars

C21_Witness ==
    \E p \in Procs :
        /\ loc[p].path = "hit"
        /\ pc[p] = "done"
        /\ loc[p].status = 200
        /\ loc[p].outcome = "complete"
        /\ loc[p].emitted > 0

\* C22: on the hit path, when the profiles side-object or the metadata
\* side-object is absent, the get that misses it does not fail the call:
\* the call goes on with {} in place of the absent side-object and, when
\* the get of a present one succeeds, with the stored document.
C22_AbsentSideObjectsAreEmpty ==
    [][\A p \in Procs :
         /\ (pc[p] = "load_profiles" /\ pc'[p] # pc[p]) =>
               /\ pc'[p] = "load_metadata"
               /\ loc'[p].path = "hit"
               /\ ~Present(ProfilesKey(loc[p].cache_key)) =>
                     loc'[p].profiles = EmptyDict
               /\ (Present(ProfilesKey(loc[p].cache_key)) /\ loc'[p].store_err = "") =>
                     loc'[p].profiles = store[ProfilesKey(loc[p].cache_key)].doc
         /\ (pc[p] = "load_metadata" /\ pc'[p] # pc[p]) =>
               /\ loc'[p].status # 500
               /\ loc'[p].path = "hit"
               /\ (pc'[p] # "done" /\ ~Present(MetadataKey(loc[p].cache_key))) =>
                     loc'[p].metadata = EmptyDict
               /\ ( /\ pc'[p] # "done"
                    /\ Present(MetadataKey(loc[p].cache_key))
                    /\ loc'[p].store_err = "" ) =>
                     loc'[p].metadata = store[MetadataKey(loc[p].cache_key)].doc]_vars

C22_Witness ==
    \E p \in Procs :
        /\ pc[p] \in {"head_variant", "size_list"}
        /\ loc[p].path = "hit"
        /\ loc[p].store_err = ""
        /\ ~Present(ProfilesKey(loc[p].cache_key))
        /\ loc[p].profiles = EmptyDict
        /\ Present(MetadataKey(loc[p].cache_key))
        /\ loc[p].metadata # EmptyDict

\* C23: a failure of the archival put cache/mseed/{cacheKey}.mseed does not
\* abort the miss-path call: whether the put succeeded or raised, the call
\* goes on to the put of the sentinel with the same samples, and the
\* (profiles, metadata) it returns are those of the stream it fetched.
C23_ArchivalPutIsBestEffort ==
    /\ [][\A p \in Procs :
            (pc[p] = "save_mseed" /\ pc'[p] # pc[p]) =>
                /\ pc'[p] = "put_int16_raw"
                /\ loc'[p].status = 0
                /\ loc'[p].stream = loc[p].stream
                /\ loc'[p].data_int16 = Normalize(loc[p].stream.data)
                /\ loc'[p].profiles = [variants |-> EmptyDict]]_vars
    /\ [](\A p \in Procs :
            (loc[p].path = "populated" /\ pc[p] \in {"head_variant", "size_list"}) =>
                /\ loc[p].profiles = ExpectedProfiles(Normalize(loc[p].stream.data))
                /\ loc[p].metadata = MetadataDoc(loc[p])
                /\ AllVariantsPresent(loc[p].cache_key)
                /\ Present(MetadataKey(loc[p].cache_key))
                /\ Present(ProfilesKey(loc[p].cache_key)))

C23_Witness ==
    \E p \in Procs :
        /\ loc[p].path = "populated"
        /\ pc[p] \in {"head_variant", "size_list"}
        /\ ~Present(MseedKey(loc[p].cache_key))
        /\ EntryComplete(loc[p].cache_key)

\* The kind of failure an error response answers: the source is not in
\* the catalogue, the variant is not one of the 6, a put of the populate
\* call raised, a head, list or get of the delivery raised, both upstream
\* fetches raised (the store calls whose exception is swallowed aside), or
\* the head of the variant found no object.
ErrorKind(l) ==
    CASE l.status = 404 -> "UnknownSource"
      [] l.status = 400 -> "UnsupportedVariant"
      [] l.store_err \in {"put_variant", "put_side_object"} -> "PartialEncodeFailure"
      [] l.store_err \in {"head_variant", "list", "get_variant"} -> "StorageUnavailable"
      [] l.path = "miss" /\ l.fetches = 2 -> "NoUpstreamData"
      [] OTHER -> "VariantAbsent"

\* C24: every error response identifies the kind of the failure: two
\* requests that failed with different kinds get responses that differ in
\* more than the text of the message, that is, in their status (the body
\* of an error response is {'error': message} and nothing else).
C24_ErrorsNameTheirKind ==
    \A p, q \in Procs :
        ( /\ pc[p] = "done" /\ loc[p].outcome = "error"
          /\ pc[q] = "done" /\ loc[q].outcome = "error"
          /\ ErrorKind(loc[p]) # ErrorKind(loc[q]) )
        => loc[p].status # loc[q].status

\* C25: no step removes an object from the store: the set of keys only
\* grows, and a step changes at most the one object it puts, which it
\* writes whole.
C25_StoreOnlyGrows ==
    [][ /\ DOMAIN store \subseteq DOMAIN store'
        /\ Cardinality({k \in DOMAIN store' :
                          k \notin DOMAIN store \/ store'[k] # store[k]}) <= 1
        /\ \A k \in DOMAIN store' :
             (k \notin DOMAIN store \/ store'[k] # store[k]) =>
                \E p \in Procs : loc'[p].last_put = k /\ loc'[p] # loc[p] ]_vars

C25_Witness ==
    /\ \A p \in Procs : loc[p].path = "populated" /\ pc[p] = "done"
    /\ \E ck \in CacheKeys : EntryComplete(ck)

\* C26: the output of stream_variant_from_r2 is finite: for both layouts
\* the generator ends, having emitted only non-empty ranges whose sizes add
\* up to at most the sizes of the blobs it read; a blob of length 0 gives no
\* range, and a chunked entry without chunk objects gives an empty stream.
C26_StreamIsFinite ==
    /\ <>(\A p \in Procs : pc[p] \in {"idle", "done"})
    /\ [](\A p \in Procs :
            LET l == loc[p]
            IN /\ \A n \in 1..Len(l.ranges) : RangeLen(l.ranges[n]) > 0
               /\ Len(l.ranges) <= l.emitted
               /\ l.emitted <= SumSeq([k \in 1..Len(l.fetched) |-> l.fetched[k].size])
               /\ \A k \in 1..Len(l.fetched) :
                     l.fetched[k].size = 0 => RangesOf(l, l.fetched[k].blob) = <<>>
               /\ (l.outcome = "complete" /\ InputBlobs(l) = {}) =>
                     (l.ranges = <<>> /\ l.emitted = 0 /\ l.fetched = <<>>))

C26_Witness ==
    \E p \in Procs :
        /\ pc[p] = "done"
        /\ loc[p].outcome = "complete"
        /\ loc[p].storage = "zarr"
        /\ Len(loc[p].fetched) = 3
        /\ loc[p].fetched[2].size = 0
        /\ Len(loc[p].ranges) >= 2

\* A chunked entry whose prefix holds the descriptor and no chunk object is
\* streamed as the empty stream.
C26_EmptyEntryWitness ==
    \E p \in Procs :
        /\ pc[p] = "done"
        /\ loc[p].outcome = "complete"
        /\ loc[p].storage = "zarr"
        /\ InputBlobs(loc[p]) = {}
        /\ loc[p].ranges = <<>>

\* The variant a request names: 'raw' and 'gzip' where it names none, and
\* 'int16' where it names the codec 'none'.
NamedVariant(asked) ==
    [storage |-> IF asked.storage = "" THEN "raw" ELSE asked.storage,
     compression |-> IF asked.compression = "" THEN "gzip"
                     ELSE IF asked.compression = "none" THEN "int16"
                     ELSE asked.compression]

\* What the client receives: the status, the Content-Length, and the body
\* as the byte ranges of the stored objects it is made of.
Served(l) ==
    [status |-> l.status, content_length |-> l.content_length,
     fetched |-> l.fetched, ranges |-> l.ranges, emitted |-> l.emitted,
     outcome |-> l.outcome]

\* C27: a request naming no codec and no layout is served the gzip
\* single-object variant, and a request naming the codec 'none' is served
\* what a request naming 'int16' is: the same store keys, the same
\* Content-Length, the same body.
C27_DefaultsAndAlias ==
    \A p \in Procs :
        pc[p] = "done" =>
            LET l == loc[p]
                v == NamedVariant(l.asked)
            IN /\ l.storage = v.storage
               /\ l.compression = v.compression
               /\ l.status = 200
               /\ l.outcome = "complete"
               /\ { l.fetched[k].blob : k \in 1..Len(l.fetched) } =
                     (IF v.storage = "raw"
                      THEN {RawKey(l.cache_key, v.compression)}
                      ELSE { k \in DOMAIN store :
                               /\ IsPrefix(ZarrPrefix(l.cache_key, v.compression), k)
                               /\ BaseName(k) \notin RESERVED_NAMES })
               /\ l.emitted = l.content_length
               /\ \A q \in Procs :
                     (pc[q] = "done" /\ NamedVariant(loc[q].asked) = v)
                        => Served(loc[q]) = Served(l)

C27_Witness ==
    \E p, q \in Procs :
        /\ pc[p] = "done" /\ pc[q] = "done"
        /\ loc[p].asked = [storage |-> "", compression |-> "none"]
        /\ loc[q].asked = [storage |-> "raw", compression |-> "int16"]
        /\ Served(loc[p]) = Served(loc[q])
        /\ loc[p].emitted > 0

\* A request that names neither parameter, answered with the gzip
\* single-object variant.
C27_DefaultWitness ==
    \E p \in Procs :
        /\ pc[p] = "done"
        /\ loc[p].asked = [storage |-> "", compression |-> ""]
        /\ loc[p].fetched # <<>>
        /\ loc[p].fetched[1].blob = RawKey(loc[p].cache_key, "gzip")
        /\ loc[p].emitted > 0

\* C28: what a miss-path call stores under its key comes from an upstream
\* fetch for the station the request selected and for the request's own
\* window, the one ending hours_ago hours before the call: a call that has
\* put an object holds the trace of that station and of that window.
C28_StoredSamplesAreOfRequest ==
    \A p \in Procs :
        (loc[p].stream # NoStream /\ loc[p].last_put # <<>>) =>
            /\ loc[p].stream.station = loc[p].station
            /\ loc[p].stream.hours_ago = loc[p].hours_ago

\* C29: the hit/miss decision depends on the presence of the sentinel only:
\* a call whose probe is made while the sentinel of its key exists takes the
\* hit path, and no step of a call on the hit path makes a missing variant
\* of the key present, so that a variant missing while the sentinel exists
\* stays missing whatever the number of later requests.
C29_SentinelAloneDecides ==
    [][\A p \in Procs :
         /\ ( /\ pc[p] = "probe"
              /\ loc'[p] # loc[p]
              /\ Present(SentinelKey(loc[p].cache_key)) )
            => loc'[p].path = "hit"
         /\ (loc[p].path = "hit" /\ loc'[p] # loc[p]) =>
               \A c \in Codecs, st \in Layouts :
                  ~VariantPresent(loc[p].cache_key, c, st) =>
                     ~VariantPresent(loc[p].cache_key, c, st)']_vars

\* C30: when a miss-path call has returned, the store holds the sentinel,
\* the 2 other single-object variants, the descriptor and at least one
\* chunk object of each of the 3 chunked variants, and both JSON
\* side-objects; the profiles the call returns have an entry for each of
\* the 6 variants, all with the same original size.
C30_PopulatePostcondition ==
    \A p \in Procs :
        loc[p].path = "populated" =>
            LET ck == loc[p].cache_key
            IN /\ Present(SentinelKey(ck))
               /\ Present(RawKey(ck, "gzip"))
               /\ Present(RawKey(ck, "blosc"))
               /\ \A c \in Codecs :
                     /\ Present(ZarrKey(ck, c, ".zarray"))
                     /\ \E k \in DOMAIN store :
                           /\ IsPrefix(ZarrPrefix(ck, c), k)
                           /\ BaseName(k) \notin RESERVED_NAMES
               /\ Present(MetadataKey(ck))
               /\ Present(ProfilesKey(ck))
               /\ pc[p] \in {"head_variant", "size_list"} =>
                     LET vs == loc[p].profiles.variants
                     IN /\ DOMAIN vs = { VariantKey(c, st) : c \in Codecs, st \in Layouts }
                        /\ \A k \in DOMAIN vs :
                              vs[k].original_size_bytes = 2 * Len(loc[p].data_int16)
                        /\ Len(loc[p].data_int16) > 0

C30_Witness ==
    \E p \in Procs :
        /\ loc[p].path = "populated"
        /\ pc[p] = "size_list"
        /\ Cardinality(DOMAIN loc[p].profiles.variants) = 6
        /\ \A q \in Procs \ {p} : pc[q] = "idle"

\* The names of the objects under the prefix of the variant that are not
\* descriptor files.
ChunkNamesUnder(l) == { BaseName(k) : k \in InputBlobs(l) }

\* The names a paged listing has gathered when its continuation token is
\* cont: every name under the prefix up to the token that is not reserved,
\* once each.
GatheredUpTo(l, names) ==
    /\ \A i, j \in 1..Len(names) : i # j => names[i] # names[j]
    /\ { names[i] : i \in 1..Len(names) } =
          { n \in ChunkNamesUnder(l) : l.cont # "" /\ NameRank(n) <= NameRank(l.cont) }

\* C31: over any number of pages, list_zarr_chunk_keys gathers every
\* object under the prefix whose last segment is not .zarray, .zattrs or
\* .zgroup exactly once and no other; the paging loop goes on exactly while
\* the store reports a truncated page; and the size computation of
\* stream_zarr adds up the sizes of the same objects.
C31_ListingIsExact ==
    /\ [](\A p \in Procs :
            /\ pc[p] = "stream_list" => GatheredUpTo(loc[p], loc[p].keys)
            /\ pc[p] = "size_list" => GatheredUpTo(loc[p], loc[p].sized))
    /\ [][\A p \in Procs :
            LET l == loc[p]
                resp == ListPage(ZarrPrefix(l.cache_key, l.compression), l.cont)
                SetOf(s) == { s[i] : i \in 1..Len(s) }
            IN /\ ( /\ pc[p] = "size_list"
                    /\ loc'[p] # l
                    /\ loc'[p].store_err = "" ) =>
                     /\ (pc'[p] = "size_list") <=> resp.IsTruncated
                     /\ ~resp.IsTruncated =>
                           /\ SetOf(loc'[p].sized) = ChunkNamesUnder(l)
                           /\ Len(loc'[p].sized) = Cardinality(ChunkNamesUnder(l))
                           /\ loc'[p].content_length =
                                 SumSeq([i \in 1..Len(loc'[p].sized) |->
                                    BodySize(store[ZarrPrefix(l.cache_key, l.compression)
                                                     \o <<loc'[p].sized[i]>>])])
               /\ ( /\ pc[p] = "stream_list"
                    /\ loc'[p] # l
                    /\ loc'[p].store_err = "" ) =>
                     /\ (pc'[p] = "stream_list") <=> resp.IsTruncated
                     /\ pc'[p] = "stream_get_chunk" =>
                           /\ SetOf(loc'[p].keys) = ChunkNamesUnder(l)
                           /\ Len(loc'[p].keys) = Cardinality(ChunkNamesUnder(l))
                           /\ l.sized # <<>> => SetOf(loc'[p].keys) = SetOf(l.sized)
                     /\ loc'[p].outcome = "complete" => ChunkNamesUnder(l) = {}]_vars

C31_Witness ==
    \E p \in Procs :
        /\ pc[p] = "stream_get_chunk"
        /\ loc[p].fetched = <<>>
        /\ Len(loc[p].keys) = 1
        /\ loc[p].content_length > 0
        /\ Cardinality({ k \in DOMAIN store :
                           IsPrefix(ZarrPrefix(loc[p].cache_key, loc[p].compression), k) }) = 4

\* C32: every sample of the normalised array that ensure_cached_in_r2
\* encodes is within [-32767, 32767], there is one per input sample, and
\* when the input is constant (all mean-subtracted samples are 0) every
\* normalised sample is 0.
C32_NormalizedRange ==
    \A p \in Procs :
        pc[p] \notin {"idle", "save_mseed", "done"} =>
            LET l == loc[p]
                x == l.stream.data
                y == l.data_int16
            IN /\ Len(y) = Len(x)
               /\ \A i \in 1..Len(y) : -INT16_PEAK <= y[i] /\ y[i] <= INT16_PEAK
               /\ (\A i, j \in 1..Len(x) : x[i] = x[j]) =>
                     \A i \in 1..Len(y) : y[i] = 0
               /\ (\E i, j \in 1..Len(x) : x[i] # x[j]) =>
                     \E i \in 1..Len(y) : Abs(y[i]) = INT16_PEAK

C32_Witness ==
    \E p \in Procs :
        /\ pc[p] = "put_int16_raw"
        /\ loc[p].stream.data = <<999, 999, 999>>
        /\ loc[p].data_int16 = <<0, 0, 0>>

\* A trace that is not constant, normalised to the full range.
C32_PeakWitness ==
    \E p \in Procs :
        /\ pc[p] = "put_int16_raw"
        /\ loc[p].stream.data = <<-1000, 2, 999>>
        /\ loc[p].data_int16[1] = -INT16_PEAK

\* C33: a miss-path call that fails because the upstream has no data has
\* written no object: none of its steps up to the failing fetch changes the
\* store and it has made no put, so that, no other call writing, the store
\* is as before and a later probe for the key finds no sentinel and misses.
C33_FailedFetchWritesNothing ==
    /\ [][\A p \in Procs :
            /\ ( /\ pc[p] \in {"probe", "fetch", "fetch_fallback"}
                 /\ loc'[p] # loc[p] ) =>
                  /\ store' = store
                  /\ loc[p].last_put = <<>>
            /\ ( /\ pc[p] = "probe"
                 /\ loc'[p] # loc[p]
                 /\ ~Present(SentinelKey(loc[p].cache_key)) ) =>
                  loc'[p].path = "miss"]_vars
    /\ [](\A p \in Procs :
            ( /\ pc[p] = "done"
              /\ loc[p].status = 500
              /\ ErrorKind(loc[p]) = "NoUpstreamData" ) =>
                /\ loc[p].fetches = 2
                /\ loc[p].path = "miss"
                /\ (\A q \in Procs \ {p} : loc[q].last_put = <<>> /\ loc[q].path # "populated"
                                           /\ pc[q] \in {"idle", "probe", "fetch",
                                                         "fetch_fallback"})
                      => store = EmptyDict)

C33_Witness ==
    \E p, q \in Procs :
        /\ pc[p] = "done"
        /\ loc[p].status = 500
        /\ ErrorKind(loc[p]) = "NoUpstreamData"
        /\ loc[p].store_err = ""
        /\ pc[q] = "fetch"
        /\ loc[q].path = "miss"
        /\ loc[q].store_err = ""
        /\ store = EmptyDict

\* What a populate call for the trace tr returns beside the cache key.
PopulateReturn(volcano, tr) ==
    [profiles |-> ExpectedProfiles(Normalize(tr.data)),
     metadata |-> [volcano |-> volcano, sample_rate |-> tr.sampling_rate,
                   total_samples |-> Len(tr.data), duration_hours |-> 1,
                   hours_ago |-> DEFAULT_HOURS_AGO]]

\* C34: a call that takes the hit path returns the (cacheKey, profiles,
\* metadata) that the populate call which created the entry returned, at
\* whatever moment its probe found the sentinel, a moment at which the
\* populate call is still running included.
C34_HitReturnsWhatPopulateReturned ==
    \A p \in Procs :
        ( /\ loc[p].path = "hit"
          /\ pc[p] \in {"head_variant", "size_list"}
          /\ loc[p].store_err = "" )
        => \E tr \in OneTrace :
              /\ loc[p].profiles = PopulateReturn(loc[p].volcano, tr).profiles
              /\ loc[p].metadata = PopulateReturn(loc[p].volcano, tr).metadata

\* The strings of the object keys of a variant of a cache key.
VariantKeyStrings(ck, c, st) ==
    IF st = "raw"
    THEN { KeyString(r2_key(ck, c, "raw", RawExt(c))) }
    ELSE { KeyString(r2_key(ck, c, "zarr", ZarrFileExt(fn))) : fn \in SchemeZarrFiles }

SchemeTriples == Codecs \X Layouts \X SchemeCacheKeys

\* Distinct triples share no object key.
SchemeInjective ==
    \A t1, t2 \in SchemeTriples :
        t1 # t2 =>
           VariantKeyStrings(t1[3], t1[1], t1[2])
              \cap VariantKeyStrings(t2[3], t2[1], t2[2]) = {}

\* No object key of a variant is the key of a side-object or of the
\* archival copy.
SchemeApartFromSideObjects ==
    \A t \in SchemeTriples, ck \in SchemeCacheKeys :
        VariantKeyStrings(t[3], t[1], t[2])
           \cap { KeyString(MetadataKey(ck)), KeyString(ProfilesKey(ck)),
                  KeyString(MseedKey(ck)) } = {}

\* C35: the key scheme is injective and isolates the variants: the objects
\* of distinct (codec, layout, cacheKey) triples have distinct keys, no
\* object key of a variant is the key of a side-object or of the archival
\* copy, and the keys of the bucket that start with the prefix listed for
\* a chunked variant of a cache key are objects of that variant of that
\* cache key, which are the ones the listing returns.
C35_KeySchemeIsolates ==
    /\ SchemeInjective
    /\ SchemeApartFromSideObjects
    /\ \A k1, k2 \in DOMAIN store : KeyString(k1) = KeyString(k2) => k1 = k2
    /\ \A ck \in SchemeCacheKeys, c \in Codecs :
          LET prefix == r2_key(ck, c, "zarr", <<"/", "data.zarr", "/">>)
              under  == { k \in DOMAIN store : IsPrefix(KeyString(prefix), KeyString(k)) }
          IN /\ \A k \in under :
                   \E fn \in SchemeZarrFiles : k = r2_key(ck, c, "zarr", ZarrFileExt(fn))
             /\ ListedNames(prefix, "") = { BaseName(k) : k \in under }

C35_Witness ==
    /\ Cardinality(DOMAIN store) = 3
    /\ \E ck1, ck2 \in SchemeCacheKeys :
          /\ ck1 # ck2
          /\ Present(r2_key(ck1, "gzip", "zarr", ZarrFileExt("0")))
          /\ Present(r2_key(ck1, "blosc", "zarr", ZarrFileExt("0")))
          /\ Present(r2_key(ck2, "gzip", "zarr", ZarrFileExt("0")))
          /\ ListedNames(ZarrPrefix(ck1, "gzip"), "") = {"0"}


\* C36: in every delivery from an entry that one populate call wrote whole,
\* whatever the variant, the X-Compressed-Bytes header, which is taken from
\* the stored profiles, states the number the Content-Length header
\* commits.
C36_CompressedBytesIsContentLength ==
    \A p \in Procs :
        loc[p].status = 200 =>
            loc[p].x_compressed_bytes = loc[p].content_length


\* What the claim says of the attempts of one request: the first is for
\* the requested duration, each next one for half (rounded down) of the one
\* before and so strictly shorter, none is for less than 60 seconds, and
\* none follows an attempt that returned traces.
AttemptsAsClaimed(l) ==
    LET n == Len(l.attempts)
    IN /\ Len(l.answers) = n
       /\ n > 0 => l.attempts[1] = l.duration
       /\ \A i \in 1..n : l.attempts[i] >= 60
       /\ \A i \in 1..(n - 1) :
             /\ l.attempts[i + 1] = l.attempts[i] \div 2
             /\ l.attempts[i + 1] < l.attempts[i]
             /\ l.answers[i] # "data"

\* The request got past the starttime test and the end-time computation.
ReachedLoop(l) == l.starttime_str /\ l.duration_kind # "text"

\* C37: the retry loop of stream_audio ends for every requested duration.
\* Its attempts are for duration, duration // 2, ..., strictly decreasing
\* and each at least 60 seconds; it stops at the first stream with traces;
\* when no attempt returned traces every duration down to 60 was tried and
\* the answer is 404, and for a duration under 60 no fetch is made at all.
C37_RetryLoopTerminates ==
    /\ [](\A p \in AudioProcs :
            LET l == loc[p]
                n == Len(l.attempts)
            IN /\ AttemptsAsClaimed(l)
               /\ (pc[p] = "done" /\ ReachedLoop(l)
                      /\ (n = 0 \/ l.answers[n] # "data"))
                     => /\ l.status = 404
                        /\ n > 0 => l.attempts[n] \div 2 < 60
               /\ (pc[p] = "done" /\ ReachedLoop(l) /\ l.duration < 60)
                     => (n = 0 /\ l.status = 404)
               /\ (pc[p] = "done" /\ l.status = 200)
                     => (n > 0 /\ l.answers[n] = "data"))
    /\ \A p \in AudioProcs : <>(pc[p] = "done")

C37_Witness ==
    \E p \in AudioProcs :
        /\ pc[p] = "done"
        /\ loc[p].status = 404
        /\ loc[p].attempts = <<250, 125, 62>>
        /\ loc[p].answers = <<"raise", "empty", "empty">>

C37_ShortWitness ==
    \E p \in AudioProcs :
        /\ pc[p] = "done"
        /\ loc[p].status = 404
        /\ ReachedLoop(loc[p])
        /\ loc[p].duration = 59
        /\ loc[p].attempts = <<>>

C37_DataWitness ==
    \E p \in AudioProcs :
        /\ pc[p] = "done"
        /\ loc[p].status = 200
        /\ loc[p].attempts = <<3600, 1800, 900>>
        /\ loc[p].answers = <<"empty", "raise", "data">>

====
